---- MODULE Spec2Model ----
(***************************************************************************)
(* GameMind hierarchical planner: the subgoal oracle (SubGoalGenerator and *)
(* LlamaClient), the MCTS engine (MCTSNode, MCTS) and the Planner that     *)
(* drives both (plan, update_plan).                                        *)
(*                                                                         *)
(* Text is a tuple of one-character strings, so that lower(), strip(),     *)
(* split(), startswith() and the substring test are computed character by  *)
(* character as Python computes them.  A character is written as itself    *)
(* when it is printable ASCII other than the grave accent, as "\t", "\n",   *)
(* "\r", "\f", and otherwise as "U+" and its code point in four to six      *)
(* capital hexadecimal digits ("U+00A0", "U+0060", "U+10400").             *)
(* A float (a draw, a simulated return, a node's value, a UCB value) is    *)
(* its IEEE 754 binary64 encoding, and float arithmetic rounds as the      *)
(* machine does.                                                           *)
(*                                                                         *)
(* Specifications:                                                         *)
(*   Spec        one Planner: plan()/update_plan() calls, the search loop  *)
(*               one iteration per step, extraction, return.               *)
(*   SpecOracle  one SubGoalGenerator called directly.                     *)
(*   SpecTree    a search tree built through the MCTSNode/MCTS methods,    *)
(*               on which select and plan extraction are applied.          *)
(*   SpecE2E     plan() for "defeat zombie" under the end-to-end           *)
(*               configuration (50 simulations, depth 3, constant 1).      *)
(*   SpecPair    two plan() invocations whose steps interleave, their      *)
(*               nodes allocated in one arena.                             *)
(*   SpecSearch  MCTS.search called directly.                              *)
(*   SpecExpand  MCTS.expand called on any node of a growing tree.          *)
(***************************************************************************)
EXTENDS Integers, Sequences, FiniteSets, TLC

VARIABLES
    cfg,        \* Planner configuration fields set by Planner.__init__
    llm,        \* the SubGoalGenerator: present (Planner.llm), enabled, llm_client
    pc,         \* position of the current call: "idle", "search", "done"
    call,       \* the call in progress: op, goal, obs, reward, executed_action
    oracle,     \* what the current call asked of the oracle and what came back
    subgoals,   \* local `subgoals` of plan(): the candidate action set
    tree,       \* the search tree, an arena of MCTSNode records (root is 1)
    iter,       \* iterations of the simulation loop completed
    selected,   \* node returned by the last MCTS.select (0: none)
    result,     \* value returned by the call
    analysis,   \* the record returned by the last analyze_task call
    runs        \* two plan() invocations in progress side by side (SpecPair)

vars == <<cfg, llm, pc, call, oracle, subgoals, tree, iter, selected, result, analysis, runs>>

----------------------------------------------------------------------------
(* Bounds of the model *)

MaxSims == 2

MaxDepthCfg == 2

MaxNodes == 3

MaxBackprops == 3

----------------------------------------------------------------------------
(* Python text primitives *)

\* the characters str.strip() and str.split() treat as white space (str.isspace)
Whitespace == {
    "\t", "\n", "U+000B", "\f", "\r", "U+001C", "U+001D", "U+001E", "U+001F", " ", "U+0085",
    "U+00A0", "U+1680", "U+2000", "U+2001", "U+2002", "U+2003", "U+2004", "U+2005", "U+2006",
    "U+2007", "U+2008", "U+2009", "U+200A", "U+2028", "U+2029", "U+202F", "U+205F", "U+3000" }

\* the characters beyond A..Z that str.lower() changes, and what it changes each to
LowerFrom == <<
    "U+00C0", "U+00C1", "U+00C2", "U+00C3", "U+00C4", "U+00C5", "U+00C6", "U+00C7", "U+00C8",
    "U+00C9", "U+00CA", "U+00CB", "U+00CC", "U+00CD", "U+00CE", "U+00CF", "U+00D0", "U+00D1",
    "U+00D2", "U+00D3", "U+00D4", "U+00D5", "U+00D6", "U+00D8", "U+00D9", "U+00DA", "U+00DB",
    "U+00DC", "U+00DD", "U+00DE", "U+0100", "U+0102", "U+0104", "U+0106", "U+0108", "U+010A",
    "U+010C", "U+010E", "U+0110", "U+0112", "U+0114", "U+0116", "U+0118", "U+011A", "U+011C",
    "U+011E", "U+0120", "U+0122", "U+0124", "U+0126", "U+0128", "U+012A", "U+012C", "U+012E",
    "U+0130", "U+0132", "U+0134", "U+0136", "U+0139", "U+013B", "U+013D", "U+013F", "U+0141",
    "U+0143", "U+0145", "U+0147", "U+014A", "U+014C", "U+014E", "U+0150", "U+0152", "U+0154",
    "U+0156", "U+0158", "U+015A", "U+015C", "U+015E", "U+0160", "U+0162", "U+0164", "U+0166",
    "U+0168", "U+016A", "U+016C", "U+016E", "U+0170", "U+0172", "U+0174", "U+0176", "U+0178",
    "U+0179", "U+017B", "U+017D", "U+0181", "U+0182", "U+0184", "U+0186", "U+0187", "U+0189",
    "U+018A", "U+018B", "U+018E", "U+018F", "U+0190", "U+0191", "U+0193", "U+0194", "U+0196",
    "U+0197", "U+0198", "U+019C", "U+019D", "U+019F", "U+01A0", "U+01A2", "U+01A4", "U+01A6",
    "U+01A7", "U+01A9", "U+01AC", "U+01AE", "U+01AF", "U+01B1", "U+01B2", "U+01B3", "U+01B5",
    "U+01B7", "U+01B8", "U+01BC", "U+01C4", "U+01C5", "U+01C7", "U+01C8", "U+01CA", "U+01CB",
    "U+01CD", "U+01CF", "U+01D1", "U+01D3", "U+01D5", "U+01D7", "U+01D9", "U+01DB", "U+01DE",
    "U+01E0", "U+01E2", "U+01E4", "U+01E6", "U+01E8", "U+01EA", "U+01EC", "U+01EE", "U+01F1",
    "U+01F2", "U+01F4", "U+01F6", "U+01F7", "U+01F8", "U+01FA", "U+01FC", "U+01FE", "U+0200",
    "U+0202", "U+0204", "U+0206", "U+0208", "U+020A", "U+020C", "U+020E", "U+0210", "U+0212",
    "U+0214", "U+0216", "U+0218", "U+021A", "U+021C", "U+021E", "U+0220", "U+0222", "U+0224",
    "U+0226", "U+0228", "U+022A", "U+022C", "U+022E", "U+0230", "U+0232", "U+023A", "U+023B",
    "U+023D", "U+023E", "U+0241", "U+0243", "U+0244", "U+0245", "U+0246", "U+0248", "U+024A",
    "U+024C", "U+024E", "U+0370", "U+0372", "U+0376", "U+037F", "U+0386", "U+0388", "U+0389",
    "U+038A", "U+038C", "U+038E", "U+038F", "U+0391", "U+0392", "U+0393", "U+0394", "U+0395",
    "U+0396", "U+0397", "U+0398", "U+0399", "U+039A", "U+039B", "U+039C", "U+039D", "U+039E",
    "U+039F", "U+03A0", "U+03A1", "U+03A4", "U+03A5", "U+03A6", "U+03A7", "U+03A8", "U+03A9",
    "U+03AA", "U+03AB", "U+03CF", "U+03D8", "U+03DA", "U+03DC", "U+03DE", "U+03E0", "U+03E2",
    "U+03E4", "U+03E6", "U+03E8", "U+03EA", "U+03EC", "U+03EE", "U+03F4", "U+03F7", "U+03F9",
    "U+03FA", "U+03FD", "U+03FE", "U+03FF", "U+0400", "U+0401", "U+0402", "U+0403", "U+0404",
    "U+0405", "U+0406", "U+0407", "U+0408", "U+0409", "U+040A", "U+040B", "U+040C", "U+040D",
    "U+040E", "U+040F", "U+0410", "U+0411", "U+0412", "U+0413", "U+0414", "U+0415", "U+0416",
    "U+0417", "U+0418", "U+0419", "U+041A", "U+041B", "U+041C", "U+041D", "U+041E", "U+041F",
    "U+0420", "U+0421", "U+0422", "U+0423", "U+0424", "U+0425", "U+0426", "U+0427", "U+0428",
    "U+0429", "U+042A", "U+042B", "U+042C", "U+042D", "U+042E", "U+042F", "U+0460", "U+0462",
    "U+0464", "U+0466", "U+0468", "U+046A", "U+046C", "U+046E", "U+0470", "U+0472", "U+0474",
    "U+0476", "U+0478", "U+047A", "U+047C", "U+047E", "U+0480", "U+048A", "U+048C", "U+048E",
    "U+0490", "U+0492", "U+0494", "U+0496", "U+0498", "U+049A", "U+049C", "U+049E", "U+04A0",
    "U+04A2", "U+04A4", "U+04A6", "U+04A8", "U+04AA", "U+04AC", "U+04AE", "U+04B0", "U+04B2",
    "U+04B4", "U+04B6", "U+04B8", "U+04BA", "U+04BC", "U+04BE", "U+04C0", "U+04C1", "U+04C3",
    "U+04C5", "U+04C7", "U+04C9", "U+04CB", "U+04CD", "U+04D0", "U+04D2", "U+04D4", "U+04D6",
    "U+04D8", "U+04DA", "U+04DC", "U+04DE", "U+04E0", "U+04E2", "U+04E4", "U+04E6", "U+04E8",
    "U+04EA", "U+04EC", "U+04EE", "U+04F0", "U+04F2", "U+04F4", "U+04F6", "U+04F8", "U+04FA",
    "U+04FC", "U+04FE", "U+0500", "U+0502", "U+0504", "U+0506", "U+0508", "U+050A", "U+050C",
    "U+050E", "U+0510", "U+0512", "U+0514", "U+0516", "U+0518", "U+051A", "U+051C", "U+051E",
    "U+0520", "U+0522", "U+0524", "U+0526", "U+0528", "U+052A", "U+052C", "U+052E", "U+0531",
    "U+0532", "U+0533", "U+0534", "U+0535", "U+0536", "U+0537", "U+0538", "U+0539", "U+053A",
    "U+053B", "U+053C", "U+053D", "U+053E", "U+053F", "U+0540", "U+0541", "U+0542", "U+0543",
    "U+0544", "U+0545", "U+0546", "U+0547", "U+0548", "U+0549", "U+054A", "U+054B", "U+054C",
    "U+054D", "U+054E", "U+054F", "U+0550", "U+0551", "U+0552", "U+0553", "U+0554", "U+0555",
    "U+0556", "U+10A0", "U+10A1", "U+10A2", "U+10A3", "U+10A4", "U+10A5", "U+10A6", "U+10A7",
    "U+10A8", "U+10A9", "U+10AA", "U+10AB", "U+10AC", "U+10AD", "U+10AE", "U+10AF", "U+10B0",
    "U+10B1", "U+10B2", "U+10B3", "U+10B4", "U+10B5", "U+10B6", "U+10B7", "U+10B8", "U+10B9",
    "U+10BA", "U+10BB", "U+10BC", "U+10BD", "U+10BE", "U+10BF", "U+10C0", "U+10C1", "U+10C2",
    "U+10C3", "U+10C4", "U+10C5", "U+10C7", "U+10CD", "U+13A0", "U+13A1", "U+13A2", "U+13A3",
    "U+13A4", "U+13A5", "U+13A6", "U+13A7", "U+13A8", "U+13A9", "U+13AA", "U+13AB", "U+13AC",
    "U+13AD", "U+13AE", "U+13AF", "U+13B0", "U+13B1", "U+13B2", "U+13B3", "U+13B4", "U+13B5",
    "U+13B6", "U+13B7", "U+13B8", "U+13B9", "U+13BA", "U+13BB", "U+13BC", "U+13BD", "U+13BE",
    "U+13BF", "U+13C0", "U+13C1", "U+13C2", "U+13C3", "U+13C4", "U+13C5", "U+13C6", "U+13C7",
    "U+13C8", "U+13C9", "U+13CA", "U+13CB", "U+13CC", "U+13CD", "U+13CE", "U+13CF", "U+13D0",
    "U+13D1", "U+13D2", "U+13D3", "U+13D4", "U+13D5", "U+13D6", "U+13D7", "U+13D8", "U+13D9",
    "U+13DA", "U+13DB", "U+13DC", "U+13DD", "U+13DE", "U+13DF", "U+13E0", "U+13E1", "U+13E2",
    "U+13E3", "U+13E4", "U+13E5", "U+13E6", "U+13E7", "U+13E8", "U+13E9", "U+13EA", "U+13EB",
    "U+13EC", "U+13ED", "U+13EE", "U+13EF", "U+13F0", "U+13F1", "U+13F2", "U+13F3", "U+13F4",
    "U+13F5", "U+1C90", "U+1C91", "U+1C92", "U+1C93", "U+1C94", "U+1C95", "U+1C96", "U+1C97",
    "U+1C98", "U+1C99", "U+1C9A", "U+1C9B", "U+1C9C", "U+1C9D", "U+1C9E", "U+1C9F", "U+1CA0",
    "U+1CA1", "U+1CA2", "U+1CA3", "U+1CA4", "U+1CA5", "U+1CA6", "U+1CA7", "U+1CA8", "U+1CA9",
    "U+1CAA", "U+1CAB", "U+1CAC", "U+1CAD", "U+1CAE", "U+1CAF", "U+1CB0", "U+1CB1", "U+1CB2",
    "U+1CB3", "U+1CB4", "U+1CB5", "U+1CB6", "U+1CB7", "U+1CB8", "U+1CB9", "U+1CBA", "U+1CBD",
    "U+1CBE", "U+1CBF", "U+1E00", "U+1E02", "U+1E04", "U+1E06", "U+1E08", "U+1E0A", "U+1E0C",
    "U+1E0E", "U+1E10", "U+1E12", "U+1E14", "U+1E16", "U+1E18", "U+1E1A", "U+1E1C", "U+1E1E",
    "U+1E20", "U+1E22", "U+1E24", "U+1E26", "U+1E28", "U+1E2A", "U+1E2C", "U+1E2E", "U+1E30",
    "U+1E32", "U+1E34", "U+1E36", "U+1E38", "U+1E3A", "U+1E3C", "U+1E3E", "U+1E40", "U+1E42",
    "U+1E44", "U+1E46", "U+1E48", "U+1E4A", "U+1E4C", "U+1E4E", "U+1E50", "U+1E52", "U+1E54",
    "U+1E56", "U+1E58", "U+1E5A", "U+1E5C", "U+1E5E", "U+1E60", "U+1E62", "U+1E64", "U+1E66",
    "U+1E68", "U+1E6A", "U+1E6C", "U+1E6E", "U+1E70", "U+1E72", "U+1E74", "U+1E76", "U+1E78",
    "U+1E7A", "U+1E7C", "U+1E7E", "U+1E80", "U+1E82", "U+1E84", "U+1E86", "U+1E88", "U+1E8A",
    "U+1E8C", "U+1E8E", "U+1E90", "U+1E92", "U+1E94", "U+1E9E", "U+1EA0", "U+1EA2", "U+1EA4",
    "U+1EA6", "U+1EA8", "U+1EAA", "U+1EAC", "U+1EAE", "U+1EB0", "U+1EB2", "U+1EB4", "U+1EB6",
    "U+1EB8", "U+1EBA", "U+1EBC", "U+1EBE", "U+1EC0", "U+1EC2", "U+1EC4", "U+1EC6", "U+1EC8",
    "U+1ECA", "U+1ECC", "U+1ECE", "U+1ED0", "U+1ED2", "U+1ED4", "U+1ED6", "U+1ED8", "U+1EDA",
    "U+1EDC", "U+1EDE", "U+1EE0", "U+1EE2", "U+1EE4", "U+1EE6", "U+1EE8", "U+1EEA", "U+1EEC",
    "U+1EEE", "U+1EF0", "U+1EF2", "U+1EF4", "U+1EF6", "U+1EF8", "U+1EFA", "U+1EFC", "U+1EFE",
    "U+1F08", "U+1F09", "U+1F0A", "U+1F0B", "U+1F0C", "U+1F0D", "U+1F0E", "U+1F0F", "U+1F18",
    "U+1F19", "U+1F1A", "U+1F1B", "U+1F1C", "U+1F1D", "U+1F28", "U+1F29", "U+1F2A", "U+1F2B",
    "U+1F2C", "U+1F2D", "U+1F2E", "U+1F2F", "U+1F38", "U+1F39", "U+1F3A", "U+1F3B", "U+1F3C",
    "U+1F3D", "U+1F3E", "U+1F3F", "U+1F48", "U+1F49", "U+1F4A", "U+1F4B", "U+1F4C", "U+1F4D",
    "U+1F59", "U+1F5B", "U+1F5D", "U+1F5F", "U+1F68", "U+1F69", "U+1F6A", "U+1F6B", "U+1F6C",
    "U+1F6D", "U+1F6E", "U+1F6F", "U+1F88", "U+1F89", "U+1F8A", "U+1F8B", "U+1F8C", "U+1F8D",
    "U+1F8E", "U+1F8F", "U+1F98", "U+1F99", "U+1F9A", "U+1F9B", "U+1F9C", "U+1F9D", "U+1F9E",
    "U+1F9F", "U+1FA8", "U+1FA9", "U+1FAA", "U+1FAB", "U+1FAC", "U+1FAD", "U+1FAE", "U+1FAF",
    "U+1FB8", "U+1FB9", "U+1FBA", "U+1FBB", "U+1FBC", "U+1FC8", "U+1FC9", "U+1FCA", "U+1FCB",
    "U+1FCC", "U+1FD8", "U+1FD9", "U+1FDA", "U+1FDB", "U+1FE8", "U+1FE9", "U+1FEA", "U+1FEB",
    "U+1FEC", "U+1FF8", "U+1FF9", "U+1FFA", "U+1FFB", "U+1FFC", "U+2126", "U+212A", "U+212B",
    "U+2132", "U+2160", "U+2161", "U+2162", "U+2163", "U+2164", "U+2165", "U+2166", "U+2167",
    "U+2168", "U+2169", "U+216A", "U+216B", "U+216C", "U+216D", "U+216E", "U+216F", "U+2183",
    "U+24B6", "U+24B7", "U+24B8", "U+24B9", "U+24BA", "U+24BB", "U+24BC", "U+24BD", "U+24BE",
    "U+24BF", "U+24C0", "U+24C1", "U+24C2", "U+24C3", "U+24C4", "U+24C5", "U+24C6", "U+24C7",
    "U+24C8", "U+24C9", "U+24CA", "U+24CB", "U+24CC", "U+24CD", "U+24CE", "U+24CF", "U+2C00",
    "U+2C01", "U+2C02", "U+2C03", "U+2C04", "U+2C05", "U+2C06", "U+2C07", "U+2C08", "U+2C09",
    "U+2C0A", "U+2C0B", "U+2C0C", "U+2C0D", "U+2C0E", "U+2C0F", "U+2C10", "U+2C11", "U+2C12",
    "U+2C13", "U+2C14", "U+2C15", "U+2C16", "U+2C17", "U+2C18", "U+2C19", "U+2C1A", "U+2C1B",
    "U+2C1C", "U+2C1D", "U+2C1E", "U+2C1F", "U+2C20", "U+2C21", "U+2C22", "U+2C23", "U+2C24",
    "U+2C25", "U+2C26", "U+2C27", "U+2C28", "U+2C29", "U+2C2A", "U+2C2B", "U+2C2C", "U+2C2D",
    "U+2C2E", "U+2C2F", "U+2C60", "U+2C62", "U+2C63", "U+2C64", "U+2C67", "U+2C69", "U+2C6B",
    "U+2C6D", "U+2C6E", "U+2C6F", "U+2C70", "U+2C72", "U+2C75", "U+2C7E", "U+2C7F", "U+2C80",
    "U+2C82", "U+2C84", "U+2C86", "U+2C88", "U+2C8A", "U+2C8C", "U+2C8E", "U+2C90", "U+2C92",
    "U+2C94", "U+2C96", "U+2C98", "U+2C9A", "U+2C9C", "U+2C9E", "U+2CA0", "U+2CA2", "U+2CA4",
    "U+2CA6", "U+2CA8", "U+2CAA", "U+2CAC", "U+2CAE", "U+2CB0", "U+2CB2", "U+2CB4", "U+2CB6",
    "U+2CB8", "U+2CBA", "U+2CBC", "U+2CBE", "U+2CC0", "U+2CC2", "U+2CC4", "U+2CC6", "U+2CC8",
    "U+2CCA", "U+2CCC", "U+2CCE", "U+2CD0", "U+2CD2", "U+2CD4", "U+2CD6", "U+2CD8", "U+2CDA",
    "U+2CDC", "U+2CDE", "U+2CE0", "U+2CE2", "U+2CEB", "U+2CED", "U+2CF2", "U+A640", "U+A642",
    "U+A644", "U+A646", "U+A648", "U+A64A", "U+A64C", "U+A64E", "U+A650", "U+A652", "U+A654",
    "U+A656", "U+A658", "U+A65A", "U+A65C", "U+A65E", "U+A660", "U+A662", "U+A664", "U+A666",
    "U+A668", "U+A66A", "U+A66C", "U+A680", "U+A682", "U+A684", "U+A686", "U+A688", "U+A68A",
    "U+A68C", "U+A68E", "U+A690", "U+A692", "U+A694", "U+A696", "U+A698", "U+A69A", "U+A722",
    "U+A724", "U+A726", "U+A728", "U+A72A", "U+A72C", "U+A72E", "U+A732", "U+A734", "U+A736",
    "U+A738", "U+A73A", "U+A73C", "U+A73E", "U+A740", "U+A742", "U+A744", "U+A746", "U+A748",
    "U+A74A", "U+A74C", "U+A74E", "U+A750", "U+A752", "U+A754", "U+A756", "U+A758", "U+A75A",
    "U+A75C", "U+A75E", "U+A760", "U+A762", "U+A764", "U+A766", "U+A768", "U+A76A", "U+A76C",
    "U+A76E", "U+A779", "U+A77B", "U+A77D", "U+A77E", "U+A780", "U+A782", "U+A784", "U+A786",
    "U+A78B", "U+A78D", "U+A790", "U+A792", "U+A796", "U+A798", "U+A79A", "U+A79C", "U+A79E",
    "U+A7A0", "U+A7A2", "U+A7A4", "U+A7A6", "U+A7A8", "U+A7AA", "U+A7AB", "U+A7AC", "U+A7AD",
    "U+A7AE", "U+A7B0", "U+A7B1", "U+A7B2", "U+A7B3", "U+A7B4", "U+A7B6", "U+A7B8", "U+A7BA",
    "U+A7BC", "U+A7BE", "U+A7C0", "U+A7C2", "U+A7C4", "U+A7C5", "U+A7C6", "U+A7C7", "U+A7C9",
    "U+A7D0", "U+A7D6", "U+A7D8", "U+A7F5", "U+FF21", "U+FF22", "U+FF23", "U+FF24", "U+FF25",
    "U+FF26", "U+FF27", "U+FF28", "U+FF29", "U+FF2A", "U+FF2B", "U+FF2C", "U+FF2D", "U+FF2E",
    "U+FF2F", "U+FF30", "U+FF31", "U+FF32", "U+FF33", "U+FF34", "U+FF35", "U+FF36", "U+FF37",
    "U+FF38", "U+FF39", "U+FF3A", "U+10400", "U+10401", "U+10402", "U+10403", "U+10404", "U+10405",
    "U+10406", "U+10407", "U+10408", "U+10409", "U+1040A", "U+1040B", "U+1040C", "U+1040D",
    "U+1040E", "U+1040F", "U+10410", "U+10411", "U+10412", "U+10413", "U+10414", "U+10415",
    "U+10416", "U+10417", "U+10418", "U+10419", "U+1041A", "U+1041B", "U+1041C", "U+1041D",
    "U+1041E", "U+1041F", "U+10420", "U+10421", "U+10422", "U+10423", "U+10424", "U+10425",
    "U+10426", "U+10427", "U+104B0", "U+104B1", "U+104B2", "U+104B3", "U+104B4", "U+104B5",
    "U+104B6", "U+104B7", "U+104B8", "U+104B9", "U+104BA", "U+104BB", "U+104BC", "U+104BD",
    "U+104BE", "U+104BF", "U+104C0", "U+104C1", "U+104C2", "U+104C3", "U+104C4", "U+104C5",
    "U+104C6", "U+104C7", "U+104C8", "U+104C9", "U+104CA", "U+104CB", "U+104CC", "U+104CD",
    "U+104CE", "U+104CF", "U+104D0", "U+104D1", "U+104D2", "U+104D3", "U+10570", "U+10571",
    "U+10572", "U+10573", "U+10574", "U+10575", "U+10576", "U+10577", "U+10578", "U+10579",
    "U+1057A", "U+1057C", "U+1057D", "U+1057E", "U+1057F", "U+10580", "U+10581", "U+10582",
    "U+10583", "U+10584", "U+10585", "U+10586", "U+10587", "U+10588", "U+10589", "U+1058A",
    "U+1058C", "U+1058D", "U+1058E", "U+1058F", "U+10590", "U+10591", "U+10592", "U+10594",
    "U+10595", "U+10C80", "U+10C81", "U+10C82", "U+10C83", "U+10C84", "U+10C85", "U+10C86",
    "U+10C87", "U+10C88", "U+10C89", "U+10C8A", "U+10C8B", "U+10C8C", "U+10C8D", "U+10C8E",
    "U+10C8F", "U+10C90", "U+10C91", "U+10C92", "U+10C93", "U+10C94", "U+10C95", "U+10C96",
    "U+10C97", "U+10C98", "U+10C99", "U+10C9A", "U+10C9B", "U+10C9C", "U+10C9D", "U+10C9E",
    "U+10C9F", "U+10CA0", "U+10CA1", "U+10CA2", "U+10CA3", "U+10CA4", "U+10CA5", "U+10CA6",
    "U+10CA7", "U+10CA8", "U+10CA9", "U+10CAA", "U+10CAB", "U+10CAC", "U+10CAD", "U+10CAE",
    "U+10CAF", "U+10CB0", "U+10CB1", "U+10CB2", "U+118A0", "U+118A1", "U+118A2", "U+118A3",
    "U+118A4", "U+118A5", "U+118A6", "U+118A7", "U+118A8", "U+118A9", "U+118AA", "U+118AB",
    "U+118AC", "U+118AD", "U+118AE", "U+118AF", "U+118B0", "U+118B1", "U+118B2", "U+118B3",
    "U+118B4", "U+118B5", "U+118B6", "U+118B7", "U+118B8", "U+118B9", "U+118BA", "U+118BB",
    "U+118BC", "U+118BD", "U+118BE", "U+118BF", "U+16E40", "U+16E41", "U+16E42", "U+16E43",
    "U+16E44", "U+16E45", "U+16E46", "U+16E47", "U+16E48", "U+16E49", "U+16E4A", "U+16E4B",
    "U+16E4C", "U+16E4D", "U+16E4E", "U+16E4F", "U+16E50", "U+16E51", "U+16E52", "U+16E53",
    "U+16E54", "U+16E55", "U+16E56", "U+16E57", "U+16E58", "U+16E59", "U+16E5A", "U+16E5B",
    "U+16E5C", "U+16E5D", "U+16E5E", "U+16E5F", "U+1E900", "U+1E901", "U+1E902", "U+1E903",
    "U+1E904", "U+1E905", "U+1E906", "U+1E907", "U+1E908", "U+1E909", "U+1E90A", "U+1E90B",
    "U+1E90C", "U+1E90D", "U+1E90E", "U+1E90F", "U+1E910", "U+1E911", "U+1E912", "U+1E913",
    "U+1E914", "U+1E915", "U+1E916", "U+1E917", "U+1E918", "U+1E919", "U+1E91A", "U+1E91B",
    "U+1E91C", "U+1E91D", "U+1E91E", "U+1E91F", "U+1E920", "U+1E921" >>

LowerTo == <<
    <<"U+00E0">>, <<"U+00E1">>, <<"U+00E2">>, <<"U+00E3">>, <<"U+00E4">>, <<"U+00E5">>,
    <<"U+00E6">>, <<"U+00E7">>, <<"U+00E8">>, <<"U+00E9">>, <<"U+00EA">>, <<"U+00EB">>,
    <<"U+00EC">>, <<"U+00ED">>, <<"U+00EE">>, <<"U+00EF">>, <<"U+00F0">>, <<"U+00F1">>,
    <<"U+00F2">>, <<"U+00F3">>, <<"U+00F4">>, <<"U+00F5">>, <<"U+00F6">>, <<"U+00F8">>,
    <<"U+00F9">>, <<"U+00FA">>, <<"U+00FB">>, <<"U+00FC">>, <<"U+00FD">>, <<"U+00FE">>,
    <<"U+0101">>, <<"U+0103">>, <<"U+0105">>, <<"U+0107">>, <<"U+0109">>, <<"U+010B">>,
    <<"U+010D">>, <<"U+010F">>, <<"U+0111">>, <<"U+0113">>, <<"U+0115">>, <<"U+0117">>,
    <<"U+0119">>, <<"U+011B">>, <<"U+011D">>, <<"U+011F">>, <<"U+0121">>, <<"U+0123">>,
    <<"U+0125">>, <<"U+0127">>, <<"U+0129">>, <<"U+012B">>, <<"U+012D">>, <<"U+012F">>,
    <<"i","U+0307">>, <<"U+0133">>, <<"U+0135">>, <<"U+0137">>, <<"U+013A">>, <<"U+013C">>,
    <<"U+013E">>, <<"U+0140">>, <<"U+0142">>, <<"U+0144">>, <<"U+0146">>, <<"U+0148">>,
    <<"U+014B">>, <<"U+014D">>, <<"U+014F">>, <<"U+0151">>, <<"U+0153">>, <<"U+0155">>,
    <<"U+0157">>, <<"U+0159">>, <<"U+015B">>, <<"U+015D">>, <<"U+015F">>, <<"U+0161">>,
    <<"U+0163">>, <<"U+0165">>, <<"U+0167">>, <<"U+0169">>, <<"U+016B">>, <<"U+016D">>,
    <<"U+016F">>, <<"U+0171">>, <<"U+0173">>, <<"U+0175">>, <<"U+0177">>, <<"U+00FF">>,
    <<"U+017A">>, <<"U+017C">>, <<"U+017E">>, <<"U+0253">>, <<"U+0183">>, <<"U+0185">>,
    <<"U+0254">>, <<"U+0188">>, <<"U+0256">>, <<"U+0257">>, <<"U+018C">>, <<"U+01DD">>,
    <<"U+0259">>, <<"U+025B">>, <<"U+0192">>, <<"U+0260">>, <<"U+0263">>, <<"U+0269">>,
    <<"U+0268">>, <<"U+0199">>, <<"U+026F">>, <<"U+0272">>, <<"U+0275">>, <<"U+01A1">>,
    <<"U+01A3">>, <<"U+01A5">>, <<"U+0280">>, <<"U+01A8">>, <<"U+0283">>, <<"U+01AD">>,
    <<"U+0288">>, <<"U+01B0">>, <<"U+028A">>, <<"U+028B">>, <<"U+01B4">>, <<"U+01B6">>,
    <<"U+0292">>, <<"U+01B9">>, <<"U+01BD">>, <<"U+01C6">>, <<"U+01C6">>, <<"U+01C9">>,
    <<"U+01C9">>, <<"U+01CC">>, <<"U+01CC">>, <<"U+01CE">>, <<"U+01D0">>, <<"U+01D2">>,
    <<"U+01D4">>, <<"U+01D6">>, <<"U+01D8">>, <<"U+01DA">>, <<"U+01DC">>, <<"U+01DF">>,
    <<"U+01E1">>, <<"U+01E3">>, <<"U+01E5">>, <<"U+01E7">>, <<"U+01E9">>, <<"U+01EB">>,
    <<"U+01ED">>, <<"U+01EF">>, <<"U+01F3">>, <<"U+01F3">>, <<"U+01F5">>, <<"U+0195">>,
    <<"U+01BF">>, <<"U+01F9">>, <<"U+01FB">>, <<"U+01FD">>, <<"U+01FF">>, <<"U+0201">>,
    <<"U+0203">>, <<"U+0205">>, <<"U+0207">>, <<"U+0209">>, <<"U+020B">>, <<"U+020D">>,
    <<"U+020F">>, <<"U+0211">>, <<"U+0213">>, <<"U+0215">>, <<"U+0217">>, <<"U+0219">>,
    <<"U+021B">>, <<"U+021D">>, <<"U+021F">>, <<"U+019E">>, <<"U+0223">>, <<"U+0225">>,
    <<"U+0227">>, <<"U+0229">>, <<"U+022B">>, <<"U+022D">>, <<"U+022F">>, <<"U+0231">>,
    <<"U+0233">>, <<"U+2C65">>, <<"U+023C">>, <<"U+019A">>, <<"U+2C66">>, <<"U+0242">>,
    <<"U+0180">>, <<"U+0289">>, <<"U+028C">>, <<"U+0247">>, <<"U+0249">>, <<"U+024B">>,
    <<"U+024D">>, <<"U+024F">>, <<"U+0371">>, <<"U+0373">>, <<"U+0377">>, <<"U+03F3">>,
    <<"U+03AC">>, <<"U+03AD">>, <<"U+03AE">>, <<"U+03AF">>, <<"U+03CC">>, <<"U+03CD">>,
    <<"U+03CE">>, <<"U+03B1">>, <<"U+03B2">>, <<"U+03B3">>, <<"U+03B4">>, <<"U+03B5">>,
    <<"U+03B6">>, <<"U+03B7">>, <<"U+03B8">>, <<"U+03B9">>, <<"U+03BA">>, <<"U+03BB">>,
    <<"U+03BC">>, <<"U+03BD">>, <<"U+03BE">>, <<"U+03BF">>, <<"U+03C0">>, <<"U+03C1">>,
    <<"U+03C4">>, <<"U+03C5">>, <<"U+03C6">>, <<"U+03C7">>, <<"U+03C8">>, <<"U+03C9">>,
    <<"U+03CA">>, <<"U+03CB">>, <<"U+03D7">>, <<"U+03D9">>, <<"U+03DB">>, <<"U+03DD">>,
    <<"U+03DF">>, <<"U+03E1">>, <<"U+03E3">>, <<"U+03E5">>, <<"U+03E7">>, <<"U+03E9">>,
    <<"U+03EB">>, <<"U+03ED">>, <<"U+03EF">>, <<"U+03B8">>, <<"U+03F8">>, <<"U+03F2">>,
    <<"U+03FB">>, <<"U+037B">>, <<"U+037C">>, <<"U+037D">>, <<"U+0450">>, <<"U+0451">>,
    <<"U+0452">>, <<"U+0453">>, <<"U+0454">>, <<"U+0455">>, <<"U+0456">>, <<"U+0457">>,
    <<"U+0458">>, <<"U+0459">>, <<"U+045A">>, <<"U+045B">>, <<"U+045C">>, <<"U+045D">>,
    <<"U+045E">>, <<"U+045F">>, <<"U+0430">>, <<"U+0431">>, <<"U+0432">>, <<"U+0433">>,
    <<"U+0434">>, <<"U+0435">>, <<"U+0436">>, <<"U+0437">>, <<"U+0438">>, <<"U+0439">>,
    <<"U+043A">>, <<"U+043B">>, <<"U+043C">>, <<"U+043D">>, <<"U+043E">>, <<"U+043F">>,
    <<"U+0440">>, <<"U+0441">>, <<"U+0442">>, <<"U+0443">>, <<"U+0444">>, <<"U+0445">>,
    <<"U+0446">>, <<"U+0447">>, <<"U+0448">>, <<"U+0449">>, <<"U+044A">>, <<"U+044B">>,
    <<"U+044C">>, <<"U+044D">>, <<"U+044E">>, <<"U+044F">>, <<"U+0461">>, <<"U+0463">>,
    <<"U+0465">>, <<"U+0467">>, <<"U+0469">>, <<"U+046B">>, <<"U+046D">>, <<"U+046F">>,
    <<"U+0471">>, <<"U+0473">>, <<"U+0475">>, <<"U+0477">>, <<"U+0479">>, <<"U+047B">>,
    <<"U+047D">>, <<"U+047F">>, <<"U+0481">>, <<"U+048B">>, <<"U+048D">>, <<"U+048F">>,
    <<"U+0491">>, <<"U+0493">>, <<"U+0495">>, <<"U+0497">>, <<"U+0499">>, <<"U+049B">>,
    <<"U+049D">>, <<"U+049F">>, <<"U+04A1">>, <<"U+04A3">>, <<"U+04A5">>, <<"U+04A7">>,
    <<"U+04A9">>, <<"U+04AB">>, <<"U+04AD">>, <<"U+04AF">>, <<"U+04B1">>, <<"U+04B3">>,
    <<"U+04B5">>, <<"U+04B7">>, <<"U+04B9">>, <<"U+04BB">>, <<"U+04BD">>, <<"U+04BF">>,
    <<"U+04CF">>, <<"U+04C2">>, <<"U+04C4">>, <<"U+04C6">>, <<"U+04C8">>, <<"U+04CA">>,
    <<"U+04CC">>, <<"U+04CE">>, <<"U+04D1">>, <<"U+04D3">>, <<"U+04D5">>, <<"U+04D7">>,
    <<"U+04D9">>, <<"U+04DB">>, <<"U+04DD">>, <<"U+04DF">>, <<"U+04E1">>, <<"U+04E3">>,
    <<"U+04E5">>, <<"U+04E7">>, <<"U+04E9">>, <<"U+04EB">>, <<"U+04ED">>, <<"U+04EF">>,
    <<"U+04F1">>, <<"U+04F3">>, <<"U+04F5">>, <<"U+04F7">>, <<"U+04F9">>, <<"U+04FB">>,
    <<"U+04FD">>, <<"U+04FF">>, <<"U+0501">>, <<"U+0503">>, <<"U+0505">>, <<"U+0507">>,
    <<"U+0509">>, <<"U+050B">>, <<"U+050D">>, <<"U+050F">>, <<"U+0511">>, <<"U+0513">>,
    <<"U+0515">>, <<"U+0517">>, <<"U+0519">>, <<"U+051B">>, <<"U+051D">>, <<"U+051F">>,
    <<"U+0521">>, <<"U+0523">>, <<"U+0525">>, <<"U+0527">>, <<"U+0529">>, <<"U+052B">>,
    <<"U+052D">>, <<"U+052F">>, <<"U+0561">>, <<"U+0562">>, <<"U+0563">>, <<"U+0564">>,
    <<"U+0565">>, <<"U+0566">>, <<"U+0567">>, <<"U+0568">>, <<"U+0569">>, <<"U+056A">>,
    <<"U+056B">>, <<"U+056C">>, <<"U+056D">>, <<"U+056E">>, <<"U+056F">>, <<"U+0570">>,
    <<"U+0571">>, <<"U+0572">>, <<"U+0573">>, <<"U+0574">>, <<"U+0575">>, <<"U+0576">>,
    <<"U+0577">>, <<"U+0578">>, <<"U+0579">>, <<"U+057A">>, <<"U+057B">>, <<"U+057C">>,
    <<"U+057D">>, <<"U+057E">>, <<"U+057F">>, <<"U+0580">>, <<"U+0581">>, <<"U+0582">>,
    <<"U+0583">>, <<"U+0584">>, <<"U+0585">>, <<"U+0586">>, <<"U+2D00">>, <<"U+2D01">>,
    <<"U+2D02">>, <<"U+2D03">>, <<"U+2D04">>, <<"U+2D05">>, <<"U+2D06">>, <<"U+2D07">>,
    <<"U+2D08">>, <<"U+2D09">>, <<"U+2D0A">>, <<"U+2D0B">>, <<"U+2D0C">>, <<"U+2D0D">>,
    <<"U+2D0E">>, <<"U+2D0F">>, <<"U+2D10">>, <<"U+2D11">>, <<"U+2D12">>, <<"U+2D13">>,
    <<"U+2D14">>, <<"U+2D15">>, <<"U+2D16">>, <<"U+2D17">>, <<"U+2D18">>, <<"U+2D19">>,
    <<"U+2D1A">>, <<"U+2D1B">>, <<"U+2D1C">>, <<"U+2D1D">>, <<"U+2D1E">>, <<"U+2D1F">>,
    <<"U+2D20">>, <<"U+2D21">>, <<"U+2D22">>, <<"U+2D23">>, <<"U+2D24">>, <<"U+2D25">>,
    <<"U+2D27">>, <<"U+2D2D">>, <<"U+AB70">>, <<"U+AB71">>, <<"U+AB72">>, <<"U+AB73">>,
    <<"U+AB74">>, <<"U+AB75">>, <<"U+AB76">>, <<"U+AB77">>, <<"U+AB78">>, <<"U+AB79">>,
    <<"U+AB7A">>, <<"U+AB7B">>, <<"U+AB7C">>, <<"U+AB7D">>, <<"U+AB7E">>, <<"U+AB7F">>,
    <<"U+AB80">>, <<"U+AB81">>, <<"U+AB82">>, <<"U+AB83">>, <<"U+AB84">>, <<"U+AB85">>,
    <<"U+AB86">>, <<"U+AB87">>, <<"U+AB88">>, <<"U+AB89">>, <<"U+AB8A">>, <<"U+AB8B">>,
    <<"U+AB8C">>, <<"U+AB8D">>, <<"U+AB8E">>, <<"U+AB8F">>, <<"U+AB90">>, <<"U+AB91">>,
    <<"U+AB92">>, <<"U+AB93">>, <<"U+AB94">>, <<"U+AB95">>, <<"U+AB96">>, <<"U+AB97">>,
    <<"U+AB98">>, <<"U+AB99">>, <<"U+AB9A">>, <<"U+AB9B">>, <<"U+AB9C">>, <<"U+AB9D">>,
    <<"U+AB9E">>, <<"U+AB9F">>, <<"U+ABA0">>, <<"U+ABA1">>, <<"U+ABA2">>, <<"U+ABA3">>,
    <<"U+ABA4">>, <<"U+ABA5">>, <<"U+ABA6">>, <<"U+ABA7">>, <<"U+ABA8">>, <<"U+ABA9">>,
    <<"U+ABAA">>, <<"U+ABAB">>, <<"U+ABAC">>, <<"U+ABAD">>, <<"U+ABAE">>, <<"U+ABAF">>,
    <<"U+ABB0">>, <<"U+ABB1">>, <<"U+ABB2">>, <<"U+ABB3">>, <<"U+ABB4">>, <<"U+ABB5">>,
    <<"U+ABB6">>, <<"U+ABB7">>, <<"U+ABB8">>, <<"U+ABB9">>, <<"U+ABBA">>, <<"U+ABBB">>,
    <<"U+ABBC">>, <<"U+ABBD">>, <<"U+ABBE">>, <<"U+ABBF">>, <<"U+13F8">>, <<"U+13F9">>,
    <<"U+13FA">>, <<"U+13FB">>, <<"U+13FC">>, <<"U+13FD">>, <<"U+10D0">>, <<"U+10D1">>,
    <<"U+10D2">>, <<"U+10D3">>, <<"U+10D4">>, <<"U+10D5">>, <<"U+10D6">>, <<"U+10D7">>,
    <<"U+10D8">>, <<"U+10D9">>, <<"U+10DA">>, <<"U+10DB">>, <<"U+10DC">>, <<"U+10DD">>,
    <<"U+10DE">>, <<"U+10DF">>, <<"U+10E0">>, <<"U+10E1">>, <<"U+10E2">>, <<"U+10E3">>,
    <<"U+10E4">>, <<"U+10E5">>, <<"U+10E6">>, <<"U+10E7">>, <<"U+10E8">>, <<"U+10E9">>,
    <<"U+10EA">>, <<"U+10EB">>, <<"U+10EC">>, <<"U+10ED">>, <<"U+10EE">>, <<"U+10EF">>,
    <<"U+10F0">>, <<"U+10F1">>, <<"U+10F2">>, <<"U+10F3">>, <<"U+10F4">>, <<"U+10F5">>,
    <<"U+10F6">>, <<"U+10F7">>, <<"U+10F8">>, <<"U+10F9">>, <<"U+10FA">>, <<"U+10FD">>,
    <<"U+10FE">>, <<"U+10FF">>, <<"U+1E01">>, <<"U+1E03">>, <<"U+1E05">>, <<"U+1E07">>,
    <<"U+1E09">>, <<"U+1E0B">>, <<"U+1E0D">>, <<"U+1E0F">>, <<"U+1E11">>, <<"U+1E13">>,
    <<"U+1E15">>, <<"U+1E17">>, <<"U+1E19">>, <<"U+1E1B">>, <<"U+1E1D">>, <<"U+1E1F">>,
    <<"U+1E21">>, <<"U+1E23">>, <<"U+1E25">>, <<"U+1E27">>, <<"U+1E29">>, <<"U+1E2B">>,
    <<"U+1E2D">>, <<"U+1E2F">>, <<"U+1E31">>, <<"U+1E33">>, <<"U+1E35">>, <<"U+1E37">>,
    <<"U+1E39">>, <<"U+1E3B">>, <<"U+1E3D">>, <<"U+1E3F">>, <<"U+1E41">>, <<"U+1E43">>,
    <<"U+1E45">>, <<"U+1E47">>, <<"U+1E49">>, <<"U+1E4B">>, <<"U+1E4D">>, <<"U+1E4F">>,
    <<"U+1E51">>, <<"U+1E53">>, <<"U+1E55">>, <<"U+1E57">>, <<"U+1E59">>, <<"U+1E5B">>,
    <<"U+1E5D">>, <<"U+1E5F">>, <<"U+1E61">>, <<"U+1E63">>, <<"U+1E65">>, <<"U+1E67">>,
    <<"U+1E69">>, <<"U+1E6B">>, <<"U+1E6D">>, <<"U+1E6F">>, <<"U+1E71">>, <<"U+1E73">>,
    <<"U+1E75">>, <<"U+1E77">>, <<"U+1E79">>, <<"U+1E7B">>, <<"U+1E7D">>, <<"U+1E7F">>,
    <<"U+1E81">>, <<"U+1E83">>, <<"U+1E85">>, <<"U+1E87">>, <<"U+1E89">>, <<"U+1E8B">>,
    <<"U+1E8D">>, <<"U+1E8F">>, <<"U+1E91">>, <<"U+1E93">>, <<"U+1E95">>, <<"U+00DF">>,
    <<"U+1EA1">>, <<"U+1EA3">>, <<"U+1EA5">>, <<"U+1EA7">>, <<"U+1EA9">>, <<"U+1EAB">>,
    <<"U+1EAD">>, <<"U+1EAF">>, <<"U+1EB1">>, <<"U+1EB3">>, <<"U+1EB5">>, <<"U+1EB7">>,
    <<"U+1EB9">>, <<"U+1EBB">>, <<"U+1EBD">>, <<"U+1EBF">>, <<"U+1EC1">>, <<"U+1EC3">>,
    <<"U+1EC5">>, <<"U+1EC7">>, <<"U+1EC9">>, <<"U+1ECB">>, <<"U+1ECD">>, <<"U+1ECF">>,
    <<"U+1ED1">>, <<"U+1ED3">>, <<"U+1ED5">>, <<"U+1ED7">>, <<"U+1ED9">>, <<"U+1EDB">>,
    <<"U+1EDD">>, <<"U+1EDF">>, <<"U+1EE1">>, <<"U+1EE3">>, <<"U+1EE5">>, <<"U+1EE7">>,
    <<"U+1EE9">>, <<"U+1EEB">>, <<"U+1EED">>, <<"U+1EEF">>, <<"U+1EF1">>, <<"U+1EF3">>,
    <<"U+1EF5">>, <<"U+1EF7">>, <<"U+1EF9">>, <<"U+1EFB">>, <<"U+1EFD">>, <<"U+1EFF">>,
    <<"U+1F00">>, <<"U+1F01">>, <<"U+1F02">>, <<"U+1F03">>, <<"U+1F04">>, <<"U+1F05">>,
    <<"U+1F06">>, <<"U+1F07">>, <<"U+1F10">>, <<"U+1F11">>, <<"U+1F12">>, <<"U+1F13">>,
    <<"U+1F14">>, <<"U+1F15">>, <<"U+1F20">>, <<"U+1F21">>, <<"U+1F22">>, <<"U+1F23">>,
    <<"U+1F24">>, <<"U+1F25">>, <<"U+1F26">>, <<"U+1F27">>, <<"U+1F30">>, <<"U+1F31">>,
    <<"U+1F32">>, <<"U+1F33">>, <<"U+1F34">>, <<"U+1F35">>, <<"U+1F36">>, <<"U+1F37">>,
    <<"U+1F40">>, <<"U+1F41">>, <<"U+1F42">>, <<"U+1F43">>, <<"U+1F44">>, <<"U+1F45">>,
    <<"U+1F51">>, <<"U+1F53">>, <<"U+1F55">>, <<"U+1F57">>, <<"U+1F60">>, <<"U+1F61">>,
    <<"U+1F62">>, <<"U+1F63">>, <<"U+1F64">>, <<"U+1F65">>, <<"U+1F66">>, <<"U+1F67">>,
    <<"U+1F80">>, <<"U+1F81">>, <<"U+1F82">>, <<"U+1F83">>, <<"U+1F84">>, <<"U+1F85">>,
    <<"U+1F86">>, <<"U+1F87">>, <<"U+1F90">>, <<"U+1F91">>, <<"U+1F92">>, <<"U+1F93">>,
    <<"U+1F94">>, <<"U+1F95">>, <<"U+1F96">>, <<"U+1F97">>, <<"U+1FA0">>, <<"U+1FA1">>,
    <<"U+1FA2">>, <<"U+1FA3">>, <<"U+1FA4">>, <<"U+1FA5">>, <<"U+1FA6">>, <<"U+1FA7">>,
    <<"U+1FB0">>, <<"U+1FB1">>, <<"U+1F70">>, <<"U+1F71">>, <<"U+1FB3">>, <<"U+1F72">>,
    <<"U+1F73">>, <<"U+1F74">>, <<"U+1F75">>, <<"U+1FC3">>, <<"U+1FD0">>, <<"U+1FD1">>,
    <<"U+1F76">>, <<"U+1F77">>, <<"U+1FE0">>, <<"U+1FE1">>, <<"U+1F7A">>, <<"U+1F7B">>,
    <<"U+1FE5">>, <<"U+1F78">>, <<"U+1F79">>, <<"U+1F7C">>, <<"U+1F7D">>, <<"U+1FF3">>,
    <<"U+03C9">>, <<"k">>, <<"U+00E5">>, <<"U+214E">>, <<"U+2170">>, <<"U+2171">>, <<"U+2172">>,
    <<"U+2173">>, <<"U+2174">>, <<"U+2175">>, <<"U+2176">>, <<"U+2177">>, <<"U+2178">>,
    <<"U+2179">>, <<"U+217A">>, <<"U+217B">>, <<"U+217C">>, <<"U+217D">>, <<"U+217E">>,
    <<"U+217F">>, <<"U+2184">>, <<"U+24D0">>, <<"U+24D1">>, <<"U+24D2">>, <<"U+24D3">>,
    <<"U+24D4">>, <<"U+24D5">>, <<"U+24D6">>, <<"U+24D7">>, <<"U+24D8">>, <<"U+24D9">>,
    <<"U+24DA">>, <<"U+24DB">>, <<"U+24DC">>, <<"U+24DD">>, <<"U+24DE">>, <<"U+24DF">>,
    <<"U+24E0">>, <<"U+24E1">>, <<"U+24E2">>, <<"U+24E3">>, <<"U+24E4">>, <<"U+24E5">>,
    <<"U+24E6">>, <<"U+24E7">>, <<"U+24E8">>, <<"U+24E9">>, <<"U+2C30">>, <<"U+2C31">>,
    <<"U+2C32">>, <<"U+2C33">>, <<"U+2C34">>, <<"U+2C35">>, <<"U+2C36">>, <<"U+2C37">>,
    <<"U+2C38">>, <<"U+2C39">>, <<"U+2C3A">>, <<"U+2C3B">>, <<"U+2C3C">>, <<"U+2C3D">>,
    <<"U+2C3E">>, <<"U+2C3F">>, <<"U+2C40">>, <<"U+2C41">>, <<"U+2C42">>, <<"U+2C43">>,
    <<"U+2C44">>, <<"U+2C45">>, <<"U+2C46">>, <<"U+2C47">>, <<"U+2C48">>, <<"U+2C49">>,
    <<"U+2C4A">>, <<"U+2C4B">>, <<"U+2C4C">>, <<"U+2C4D">>, <<"U+2C4E">>, <<"U+2C4F">>,
    <<"U+2C50">>, <<"U+2C51">>, <<"U+2C52">>, <<"U+2C53">>, <<"U+2C54">>, <<"U+2C55">>,
    <<"U+2C56">>, <<"U+2C57">>, <<"U+2C58">>, <<"U+2C59">>, <<"U+2C5A">>, <<"U+2C5B">>,
    <<"U+2C5C">>, <<"U+2C5D">>, <<"U+2C5E">>, <<"U+2C5F">>, <<"U+2C61">>, <<"U+026B">>,
    <<"U+1D7D">>, <<"U+027D">>, <<"U+2C68">>, <<"U+2C6A">>, <<"U+2C6C">>, <<"U+0251">>,
    <<"U+0271">>, <<"U+0250">>, <<"U+0252">>, <<"U+2C73">>, <<"U+2C76">>, <<"U+023F">>,
    <<"U+0240">>, <<"U+2C81">>, <<"U+2C83">>, <<"U+2C85">>, <<"U+2C87">>, <<"U+2C89">>,
    <<"U+2C8B">>, <<"U+2C8D">>, <<"U+2C8F">>, <<"U+2C91">>, <<"U+2C93">>, <<"U+2C95">>,
    <<"U+2C97">>, <<"U+2C99">>, <<"U+2C9B">>, <<"U+2C9D">>, <<"U+2C9F">>, <<"U+2CA1">>,
    <<"U+2CA3">>, <<"U+2CA5">>, <<"U+2CA7">>, <<"U+2CA9">>, <<"U+2CAB">>, <<"U+2CAD">>,
    <<"U+2CAF">>, <<"U+2CB1">>, <<"U+2CB3">>, <<"U+2CB5">>, <<"U+2CB7">>, <<"U+2CB9">>,
    <<"U+2CBB">>, <<"U+2CBD">>, <<"U+2CBF">>, <<"U+2CC1">>, <<"U+2CC3">>, <<"U+2CC5">>,
    <<"U+2CC7">>, <<"U+2CC9">>, <<"U+2CCB">>, <<"U+2CCD">>, <<"U+2CCF">>, <<"U+2CD1">>,
    <<"U+2CD3">>, <<"U+2CD5">>, <<"U+2CD7">>, <<"U+2CD9">>, <<"U+2CDB">>, <<"U+2CDD">>,
    <<"U+2CDF">>, <<"U+2CE1">>, <<"U+2CE3">>, <<"U+2CEC">>, <<"U+2CEE">>, <<"U+2CF3">>,
    <<"U+A641">>, <<"U+A643">>, <<"U+A645">>, <<"U+A647">>, <<"U+A649">>, <<"U+A64B">>,
    <<"U+A64D">>, <<"U+A64F">>, <<"U+A651">>, <<"U+A653">>, <<"U+A655">>, <<"U+A657">>,
    <<"U+A659">>, <<"U+A65B">>, <<"U+A65D">>, <<"U+A65F">>, <<"U+A661">>, <<"U+A663">>,
    <<"U+A665">>, <<"U+A667">>, <<"U+A669">>, <<"U+A66B">>, <<"U+A66D">>, <<"U+A681">>,
    <<"U+A683">>, <<"U+A685">>, <<"U+A687">>, <<"U+A689">>, <<"U+A68B">>, <<"U+A68D">>,
    <<"U+A68F">>, <<"U+A691">>, <<"U+A693">>, <<"U+A695">>, <<"U+A697">>, <<"U+A699">>,
    <<"U+A69B">>, <<"U+A723">>, <<"U+A725">>, <<"U+A727">>, <<"U+A729">>, <<"U+A72B">>,
    <<"U+A72D">>, <<"U+A72F">>, <<"U+A733">>, <<"U+A735">>, <<"U+A737">>, <<"U+A739">>,
    <<"U+A73B">>, <<"U+A73D">>, <<"U+A73F">>, <<"U+A741">>, <<"U+A743">>, <<"U+A745">>,
    <<"U+A747">>, <<"U+A749">>, <<"U+A74B">>, <<"U+A74D">>, <<"U+A74F">>, <<"U+A751">>,
    <<"U+A753">>, <<"U+A755">>, <<"U+A757">>, <<"U+A759">>, <<"U+A75B">>, <<"U+A75D">>,
    <<"U+A75F">>, <<"U+A761">>, <<"U+A763">>, <<"U+A765">>, <<"U+A767">>, <<"U+A769">>,
    <<"U+A76B">>, <<"U+A76D">>, <<"U+A76F">>, <<"U+A77A">>, <<"U+A77C">>, <<"U+1D79">>,
    <<"U+A77F">>, <<"U+A781">>, <<"U+A783">>, <<"U+A785">>, <<"U+A787">>, <<"U+A78C">>,
    <<"U+0265">>, <<"U+A791">>, <<"U+A793">>, <<"U+A797">>, <<"U+A799">>, <<"U+A79B">>,
    <<"U+A79D">>, <<"U+A79F">>, <<"U+A7A1">>, <<"U+A7A3">>, <<"U+A7A5">>, <<"U+A7A7">>,
    <<"U+A7A9">>, <<"U+0266">>, <<"U+025C">>, <<"U+0261">>, <<"U+026C">>, <<"U+026A">>,
    <<"U+029E">>, <<"U+0287">>, <<"U+029D">>, <<"U+AB53">>, <<"U+A7B5">>, <<"U+A7B7">>,
    <<"U+A7B9">>, <<"U+A7BB">>, <<"U+A7BD">>, <<"U+A7BF">>, <<"U+A7C1">>, <<"U+A7C3">>,
    <<"U+A794">>, <<"U+0282">>, <<"U+1D8E">>, <<"U+A7C8">>, <<"U+A7CA">>, <<"U+A7D1">>,
    <<"U+A7D7">>, <<"U+A7D9">>, <<"U+A7F6">>, <<"U+FF41">>, <<"U+FF42">>, <<"U+FF43">>,
    <<"U+FF44">>, <<"U+FF45">>, <<"U+FF46">>, <<"U+FF47">>, <<"U+FF48">>, <<"U+FF49">>,
    <<"U+FF4A">>, <<"U+FF4B">>, <<"U+FF4C">>, <<"U+FF4D">>, <<"U+FF4E">>, <<"U+FF4F">>,
    <<"U+FF50">>, <<"U+FF51">>, <<"U+FF52">>, <<"U+FF53">>, <<"U+FF54">>, <<"U+FF55">>,
    <<"U+FF56">>, <<"U+FF57">>, <<"U+FF58">>, <<"U+FF59">>, <<"U+FF5A">>, <<"U+10428">>,
    <<"U+10429">>, <<"U+1042A">>, <<"U+1042B">>, <<"U+1042C">>, <<"U+1042D">>, <<"U+1042E">>,
    <<"U+1042F">>, <<"U+10430">>, <<"U+10431">>, <<"U+10432">>, <<"U+10433">>, <<"U+10434">>,
    <<"U+10435">>, <<"U+10436">>, <<"U+10437">>, <<"U+10438">>, <<"U+10439">>, <<"U+1043A">>,
    <<"U+1043B">>, <<"U+1043C">>, <<"U+1043D">>, <<"U+1043E">>, <<"U+1043F">>, <<"U+10440">>,
    <<"U+10441">>, <<"U+10442">>, <<"U+10443">>, <<"U+10444">>, <<"U+10445">>, <<"U+10446">>,
    <<"U+10447">>, <<"U+10448">>, <<"U+10449">>, <<"U+1044A">>, <<"U+1044B">>, <<"U+1044C">>,
    <<"U+1044D">>, <<"U+1044E">>, <<"U+1044F">>, <<"U+104D8">>, <<"U+104D9">>, <<"U+104DA">>,
    <<"U+104DB">>, <<"U+104DC">>, <<"U+104DD">>, <<"U+104DE">>, <<"U+104DF">>, <<"U+104E0">>,
    <<"U+104E1">>, <<"U+104E2">>, <<"U+104E3">>, <<"U+104E4">>, <<"U+104E5">>, <<"U+104E6">>,
    <<"U+104E7">>, <<"U+104E8">>, <<"U+104E9">>, <<"U+104EA">>, <<"U+104EB">>, <<"U+104EC">>,
    <<"U+104ED">>, <<"U+104EE">>, <<"U+104EF">>, <<"U+104F0">>, <<"U+104F1">>, <<"U+104F2">>,
    <<"U+104F3">>, <<"U+104F4">>, <<"U+104F5">>, <<"U+104F6">>, <<"U+104F7">>, <<"U+104F8">>,
    <<"U+104F9">>, <<"U+104FA">>, <<"U+104FB">>, <<"U+10597">>, <<"U+10598">>, <<"U+10599">>,
    <<"U+1059A">>, <<"U+1059B">>, <<"U+1059C">>, <<"U+1059D">>, <<"U+1059E">>, <<"U+1059F">>,
    <<"U+105A0">>, <<"U+105A1">>, <<"U+105A3">>, <<"U+105A4">>, <<"U+105A5">>, <<"U+105A6">>,
    <<"U+105A7">>, <<"U+105A8">>, <<"U+105A9">>, <<"U+105AA">>, <<"U+105AB">>, <<"U+105AC">>,
    <<"U+105AD">>, <<"U+105AE">>, <<"U+105AF">>, <<"U+105B0">>, <<"U+105B1">>, <<"U+105B3">>,
    <<"U+105B4">>, <<"U+105B5">>, <<"U+105B6">>, <<"U+105B7">>, <<"U+105B8">>, <<"U+105B9">>,
    <<"U+105BB">>, <<"U+105BC">>, <<"U+10CC0">>, <<"U+10CC1">>, <<"U+10CC2">>, <<"U+10CC3">>,
    <<"U+10CC4">>, <<"U+10CC5">>, <<"U+10CC6">>, <<"U+10CC7">>, <<"U+10CC8">>, <<"U+10CC9">>,
    <<"U+10CCA">>, <<"U+10CCB">>, <<"U+10CCC">>, <<"U+10CCD">>, <<"U+10CCE">>, <<"U+10CCF">>,
    <<"U+10CD0">>, <<"U+10CD1">>, <<"U+10CD2">>, <<"U+10CD3">>, <<"U+10CD4">>, <<"U+10CD5">>,
    <<"U+10CD6">>, <<"U+10CD7">>, <<"U+10CD8">>, <<"U+10CD9">>, <<"U+10CDA">>, <<"U+10CDB">>,
    <<"U+10CDC">>, <<"U+10CDD">>, <<"U+10CDE">>, <<"U+10CDF">>, <<"U+10CE0">>, <<"U+10CE1">>,
    <<"U+10CE2">>, <<"U+10CE3">>, <<"U+10CE4">>, <<"U+10CE5">>, <<"U+10CE6">>, <<"U+10CE7">>,
    <<"U+10CE8">>, <<"U+10CE9">>, <<"U+10CEA">>, <<"U+10CEB">>, <<"U+10CEC">>, <<"U+10CED">>,
    <<"U+10CEE">>, <<"U+10CEF">>, <<"U+10CF0">>, <<"U+10CF1">>, <<"U+10CF2">>, <<"U+118C0">>,
    <<"U+118C1">>, <<"U+118C2">>, <<"U+118C3">>, <<"U+118C4">>, <<"U+118C5">>, <<"U+118C6">>,
    <<"U+118C7">>, <<"U+118C8">>, <<"U+118C9">>, <<"U+118CA">>, <<"U+118CB">>, <<"U+118CC">>,
    <<"U+118CD">>, <<"U+118CE">>, <<"U+118CF">>, <<"U+118D0">>, <<"U+118D1">>, <<"U+118D2">>,
    <<"U+118D3">>, <<"U+118D4">>, <<"U+118D5">>, <<"U+118D6">>, <<"U+118D7">>, <<"U+118D8">>,
    <<"U+118D9">>, <<"U+118DA">>, <<"U+118DB">>, <<"U+118DC">>, <<"U+118DD">>, <<"U+118DE">>,
    <<"U+118DF">>, <<"U+16E60">>, <<"U+16E61">>, <<"U+16E62">>, <<"U+16E63">>, <<"U+16E64">>,
    <<"U+16E65">>, <<"U+16E66">>, <<"U+16E67">>, <<"U+16E68">>, <<"U+16E69">>, <<"U+16E6A">>,
    <<"U+16E6B">>, <<"U+16E6C">>, <<"U+16E6D">>, <<"U+16E6E">>, <<"U+16E6F">>, <<"U+16E70">>,
    <<"U+16E71">>, <<"U+16E72">>, <<"U+16E73">>, <<"U+16E74">>, <<"U+16E75">>, <<"U+16E76">>,
    <<"U+16E77">>, <<"U+16E78">>, <<"U+16E79">>, <<"U+16E7A">>, <<"U+16E7B">>, <<"U+16E7C">>,
    <<"U+16E7D">>, <<"U+16E7E">>, <<"U+16E7F">>, <<"U+1E922">>, <<"U+1E923">>, <<"U+1E924">>,
    <<"U+1E925">>, <<"U+1E926">>, <<"U+1E927">>, <<"U+1E928">>, <<"U+1E929">>, <<"U+1E92A">>,
    <<"U+1E92B">>, <<"U+1E92C">>, <<"U+1E92D">>, <<"U+1E92E">>, <<"U+1E92F">>, <<"U+1E930">>,
    <<"U+1E931">>, <<"U+1E932">>, <<"U+1E933">>, <<"U+1E934">>, <<"U+1E935">>, <<"U+1E936">>,
    <<"U+1E937">>, <<"U+1E938">>, <<"U+1E939">>, <<"U+1E93A">>, <<"U+1E93B">>, <<"U+1E93C">>,
    <<"U+1E93D">>, <<"U+1E93E">>, <<"U+1E93F">>, <<"U+1E940">>, <<"U+1E941">>, <<"U+1E942">>,
    <<"U+1E943">> >>

\* the cased characters that are not case-ignorable (what the final-sigma test of
\* str.lower() looks for on either side of a capital sigma)
Cased == {
    "A", "B", "C", "D", "E", "F", "G", "H", "I", "J", "K", "L", "M", "N", "O", "P", "Q", "R", "S",
    "T", "U", "V", "W", "X", "Y", "Z", "a", "b", "c", "d", "e", "f", "g", "h", "i", "j", "k", "l",
    "m", "n", "o", "p", "q", "r", "s", "t", "u", "v", "w", "x", "y", "z", "U+00AA", "U+00B5",
    "U+00BA", "U+00C0", "U+00C1", "U+00C2", "U+00C3", "U+00C4", "U+00C5", "U+00C6", "U+00C7",
    "U+00C8", "U+00C9", "U+00CA", "U+00CB", "U+00CC", "U+00CD", "U+00CE", "U+00CF", "U+00D0",
    "U+00D1", "U+00D2", "U+00D3", "U+00D4", "U+00D5", "U+00D6", "U+00D8", "U+00D9", "U+00DA",
    "U+00DB", "U+00DC", "U+00DD", "U+00DE", "U+00DF", "U+00E0", "U+00E1", "U+00E2", "U+00E3",
    "U+00E4", "U+00E5", "U+00E6", "U+00E7", "U+00E8", "U+00E9", "U+00EA", "U+00EB", "U+00EC",
    "U+00ED", "U+00EE", "U+00EF", "U+00F0", "U+00F1", "U+00F2", "U+00F3", "U+00F4", "U+00F5",
    "U+00F6", "U+00F8", "U+00F9", "U+00FA", "U+00FB", "U+00FC", "U+00FD", "U+00FE", "U+00FF",
    "U+0100", "U+0101", "U+0102", "U+0103", "U+0104", "U+0105", "U+0106", "U+0107", "U+0108",
    "U+0109", "U+010A", "U+010B", "U+010C", "U+010D", "U+010E", "U+010F", "U+0110", "U+0111",
    "U+0112", "U+0113", "U+0114", "U+0115", "U+0116", "U+0117", "U+0118", "U+0119", "U+011A",
    "U+011B", "U+011C", "U+011D", "U+011E", "U+011F", "U+0120", "U+0121", "U+0122", "U+0123",
    "U+0124", "U+0125", "U+0126", "U+0127", "U+0128", "U+0129", "U+012A", "U+012B", "U+012C",
    "U+012D", "U+012E", "U+012F", "U+0130", "U+0131", "U+0132", "U+0133", "U+0134", "U+0135",
    "U+0136", "U+0137", "U+0138", "U+0139", "U+013A", "U+013B", "U+013C", "U+013D", "U+013E",
    "U+013F", "U+0140", "U+0141", "U+0142", "U+0143", "U+0144", "U+0145", "U+0146", "U+0147",
    "U+0148", "U+0149", "U+014A", "U+014B", "U+014C", "U+014D", "U+014E", "U+014F", "U+0150",
    "U+0151", "U+0152", "U+0153", "U+0154", "U+0155", "U+0156", "U+0157", "U+0158", "U+0159",
    "U+015A", "U+015B", "U+015C", "U+015D", "U+015E", "U+015F", "U+0160", "U+0161", "U+0162",
    "U+0163", "U+0164", "U+0165", "U+0166", "U+0167", "U+0168", "U+0169", "U+016A", "U+016B",
    "U+016C", "U+016D", "U+016E", "U+016F", "U+0170", "U+0171", "U+0172", "U+0173", "U+0174",
    "U+0175", "U+0176", "U+0177", "U+0178", "U+0179", "U+017A", "U+017B", "U+017C", "U+017D",
    "U+017E", "U+017F", "U+0180", "U+0181", "U+0182", "U+0183", "U+0184", "U+0185", "U+0186",
    "U+0187", "U+0188", "U+0189", "U+018A", "U+018B", "U+018C", "U+018D", "U+018E", "U+018F",
    "U+0190", "U+0191", "U+0192", "U+0193", "U+0194", "U+0195", "U+0196", "U+0197", "U+0198",
    "U+0199", "U+019A", "U+019B", "U+019C", "U+019D", "U+019E", "U+019F", "U+01A0", "U+01A1",
    "U+01A2", "U+01A3", "U+01A4", "U+01A5", "U+01A6", "U+01A7", "U+01A8", "U+01A9", "U+01AA",
    "U+01AB", "U+01AC", "U+01AD", "U+01AE", "U+01AF", "U+01B0", "U+01B1", "U+01B2", "U+01B3",
    "U+01B4", "U+01B5", "U+01B6", "U+01B7", "U+01B8", "U+01B9", "U+01BA", "U+01BC", "U+01BD",
    "U+01BE", "U+01BF", "U+01C4", "U+01C5", "U+01C6", "U+01C7", "U+01C8", "U+01C9", "U+01CA",
    "U+01CB", "U+01CC", "U+01CD", "U+01CE", "U+01CF", "U+01D0", "U+01D1", "U+01D2", "U+01D3",
    "U+01D4", "U+01D5", "U+01D6", "U+01D7", "U+01D8", "U+01D9", "U+01DA", "U+01DB", "U+01DC",
    "U+01DD", "U+01DE", "U+01DF", "U+01E0", "U+01E1", "U+01E2", "U+01E3", "U+01E4", "U+01E5",
    "U+01E6", "U+01E7", "U+01E8", "U+01E9", "U+01EA", "U+01EB", "U+01EC", "U+01ED", "U+01EE",
    "U+01EF", "U+01F0", "U+01F1", "U+01F2", "U+01F3", "U+01F4", "U+01F5", "U+01F6", "U+01F7",
    "U+01F8", "U+01F9", "U+01FA", "U+01FB", "U+01FC", "U+01FD", "U+01FE", "U+01FF", "U+0200",
    "U+0201", "U+0202", "U+0203", "U+0204", "U+0205", "U+0206", "U+0207", "U+0208", "U+0209",
    "U+020A", "U+020B", "U+020C", "U+020D", "U+020E", "U+020F", "U+0210", "U+0211", "U+0212",
    "U+0213", "U+0214", "U+0215", "U+0216", "U+0217", "U+0218", "U+0219", "U+021A", "U+021B",
    "U+021C", "U+021D", "U+021E", "U+021F", "U+0220", "U+0221", "U+0222", "U+0223", "U+0224",
    "U+0225", "U+0226", "U+0227", "U+0228", "U+0229", "U+022A", "U+022B", "U+022C", "U+022D",
    "U+022E", "U+022F", "U+0230", "U+0231", "U+0232", "U+0233", "U+0234", "U+0235", "U+0236",
    "U+0237", "U+0238", "U+0239", "U+023A", "U+023B", "U+023C", "U+023D", "U+023E", "U+023F",
    "U+0240", "U+0241", "U+0242", "U+0243", "U+0244", "U+0245", "U+0246", "U+0247", "U+0248",
    "U+0249", "U+024A", "U+024B", "U+024C", "U+024D", "U+024E", "U+024F", "U+0250", "U+0251",
    "U+0252", "U+0253", "U+0254", "U+0255", "U+0256", "U+0257", "U+0258", "U+0259", "U+025A",
    "U+025B", "U+025C", "U+025D", "U+025E", "U+025F", "U+0260", "U+0261", "U+0262", "U+0263",
    "U+0264", "U+0265", "U+0266", "U+0267", "U+0268", "U+0269", "U+026A", "U+026B", "U+026C",
    "U+026D", "U+026E", "U+026F", "U+0270", "U+0271", "U+0272", "U+0273", "U+0274", "U+0275",
    "U+0276", "U+0277", "U+0278", "U+0279", "U+027A", "U+027B", "U+027C", "U+027D", "U+027E",
    "U+027F", "U+0280", "U+0281", "U+0282", "U+0283", "U+0284", "U+0285", "U+0286", "U+0287",
    "U+0288", "U+0289", "U+028A", "U+028B", "U+028C", "U+028D", "U+028E", "U+028F", "U+0290",
    "U+0291", "U+0292", "U+0293", "U+0295", "U+0296", "U+0297", "U+0298", "U+0299", "U+029A",
    "U+029B", "U+029C", "U+029D", "U+029E", "U+029F", "U+02A0", "U+02A1", "U+02A2", "U+02A3",
    "U+02A4", "U+02A5", "U+02A6", "U+02A7", "U+02A8", "U+02A9", "U+02AA", "U+02AB", "U+02AC",
    "U+02AD", "U+02AE", "U+02AF", "U+0370", "U+0371", "U+0372", "U+0373", "U+0376", "U+0377",
    "U+037B", "U+037C", "U+037D", "U+037F", "U+0386", "U+0388", "U+0389", "U+038A", "U+038C",
    "U+038E", "U+038F", "U+0390", "U+0391", "U+0392", "U+0393", "U+0394", "U+0395", "U+0396",
    "U+0397", "U+0398", "U+0399", "U+039A", "U+039B", "U+039C", "U+039D", "U+039E", "U+039F",
    "U+03A0", "U+03A1", "U+03A3", "U+03A4", "U+03A5", "U+03A6", "U+03A7", "U+03A8", "U+03A9",
    "U+03AA", "U+03AB", "U+03AC", "U+03AD", "U+03AE", "U+03AF", "U+03B0", "U+03B1", "U+03B2",
    "U+03B3", "U+03B4", "U+03B5", "U+03B6", "U+03B7", "U+03B8", "U+03B9", "U+03BA", "U+03BB",
    "U+03BC", "U+03BD", "U+03BE", "U+03BF", "U+03C0", "U+03C1", "U+03C2", "U+03C3", "U+03C4",
    "U+03C5", "U+03C6", "U+03C7", "U+03C8", "U+03C9", "U+03CA", "U+03CB", "U+03CC", "U+03CD",
    "U+03CE", "U+03CF", "U+03D0", "U+03D1", "U+03D2", "U+03D3", "U+03D4", "U+03D5", "U+03D6",
    "U+03D7", "U+03D8", "U+03D9", "U+03DA", "U+03DB", "U+03DC", "U+03DD", "U+03DE", "U+03DF",
    "U+03E0", "U+03E1", "U+03E2", "U+03E3", "U+03E4", "U+03E5", "U+03E6", "U+03E7", "U+03E8",
    "U+03E9", "U+03EA", "U+03EB", "U+03EC", "U+03ED", "U+03EE", "U+03EF", "U+03F0", "U+03F1",
    "U+03F2", "U+03F3", "U+03F4", "U+03F5", "U+03F7", "U+03F8", "U+03F9", "U+03FA", "U+03FB",
    "U+03FC", "U+03FD", "U+03FE", "U+03FF", "U+0400", "U+0401", "U+0402", "U+0403", "U+0404",
    "U+0405", "U+0406", "U+0407", "U+0408", "U+0409", "U+040A", "U+040B", "U+040C", "U+040D",
    "U+040E", "U+040F", "U+0410", "U+0411", "U+0412", "U+0413", "U+0414", "U+0415", "U+0416",
    "U+0417", "U+0418", "U+0419", "U+041A", "U+041B", "U+041C", "U+041D", "U+041E", "U+041F",
    "U+0420", "U+0421", "U+0422", "U+0423", "U+0424", "U+0425", "U+0426", "U+0427", "U+0428",
    "U+0429", "U+042A", "U+042B", "U+042C", "U+042D", "U+042E", "U+042F", "U+0430", "U+0431",
    "U+0432", "U+0433", "U+0434", "U+0435", "U+0436", "U+0437", "U+0438", "U+0439", "U+043A",
    "U+043B", "U+043C", "U+043D", "U+043E", "U+043F", "U+0440", "U+0441", "U+0442", "U+0443",
    "U+0444", "U+0445", "U+0446", "U+0447", "U+0448", "U+0449", "U+044A", "U+044B", "U+044C",
    "U+044D", "U+044E", "U+044F", "U+0450", "U+0451", "U+0452", "U+0453", "U+0454", "U+0455",
    "U+0456", "U+0457", "U+0458", "U+0459", "U+045A", "U+045B", "U+045C", "U+045D", "U+045E",
    "U+045F", "U+0460", "U+0461", "U+0462", "U+0463", "U+0464", "U+0465", "U+0466", "U+0467",
    "U+0468", "U+0469", "U+046A", "U+046B", "U+046C", "U+046D", "U+046E", "U+046F", "U+0470",
    "U+0471", "U+0472", "U+0473", "U+0474", "U+0475", "U+0476", "U+0477", "U+0478", "U+0479",
    "U+047A", "U+047B", "U+047C", "U+047D", "U+047E", "U+047F", "U+0480", "U+0481", "U+048A",
    "U+048B", "U+048C", "U+048D", "U+048E", "U+048F", "U+0490", "U+0491", "U+0492", "U+0493",
    "U+0494", "U+0495", "U+0496", "U+0497", "U+0498", "U+0499", "U+049A", "U+049B", "U+049C",
    "U+049D", "U+049E", "U+049F", "U+04A0", "U+04A1", "U+04A2", "U+04A3", "U+04A4", "U+04A5",
    "U+04A6", "U+04A7", "U+04A8", "U+04A9", "U+04AA", "U+04AB", "U+04AC", "U+04AD", "U+04AE",
    "U+04AF", "U+04B0", "U+04B1", "U+04B2", "U+04B3", "U+04B4", "U+04B5", "U+04B6", "U+04B7",
    "U+04B8", "U+04B9", "U+04BA", "U+04BB", "U+04BC", "U+04BD", "U+04BE", "U+04BF", "U+04C0",
    "U+04C1", "U+04C2", "U+04C3", "U+04C4", "U+04C5", "U+04C6", "U+04C7", "U+04C8", "U+04C9",
    "U+04CA", "U+04CB", "U+04CC", "U+04CD", "U+04CE", "U+04CF", "U+04D0", "U+04D1", "U+04D2",
    "U+04D3", "U+04D4", "U+04D5", "U+04D6", "U+04D7", "U+04D8", "U+04D9", "U+04DA", "U+04DB",
    "U+04DC", "U+04DD", "U+04DE", "U+04DF", "U+04E0", "U+04E1", "U+04E2", "U+04E3", "U+04E4",
    "U+04E5", "U+04E6", "U+04E7", "U+04E8", "U+04E9", "U+04EA", "U+04EB", "U+04EC", "U+04ED",
    "U+04EE", "U+04EF", "U+04F0", "U+04F1", "U+04F2", "U+04F3", "U+04F4", "U+04F5", "U+04F6",
    "U+04F7", "U+04F8", "U+04F9", "U+04FA", "U+04FB", "U+04FC", "U+04FD", "U+04FE", "U+04FF",
    "U+0500", "U+0501", "U+0502", "U+0503", "U+0504", "U+0505", "U+0506", "U+0507", "U+0508",
    "U+0509", "U+050A", "U+050B", "U+050C", "U+050D", "U+050E", "U+050F", "U+0510", "U+0511",
    "U+0512", "U+0513", "U+0514", "U+0515", "U+0516", "U+0517", "U+0518", "U+0519", "U+051A",
    "U+051B", "U+051C", "U+051D", "U+051E", "U+051F", "U+0520", "U+0521", "U+0522", "U+0523",
    "U+0524", "U+0525", "U+0526", "U+0527", "U+0528", "U+0529", "U+052A", "U+052B", "U+052C",
    "U+052D", "U+052E", "U+052F", "U+0531", "U+0532", "U+0533", "U+0534", "U+0535", "U+0536",
    "U+0537", "U+0538", "U+0539", "U+053A", "U+053B", "U+053C", "U+053D", "U+053E", "U+053F",
    "U+0540", "U+0541", "U+0542", "U+0543", "U+0544", "U+0545", "U+0546", "U+0547", "U+0548",
    "U+0549", "U+054A", "U+054B", "U+054C", "U+054D", "U+054E", "U+054F", "U+0550", "U+0551",
    "U+0552", "U+0553", "U+0554", "U+0555", "U+0556", "U+0560", "U+0561", "U+0562", "U+0563",
    "U+0564", "U+0565", "U+0566", "U+0567", "U+0568", "U+0569", "U+056A", "U+056B", "U+056C",
    "U+056D", "U+056E", "U+056F", "U+0570", "U+0571", "U+0572", "U+0573", "U+0574", "U+0575",
    "U+0576", "U+0577", "U+0578", "U+0579", "U+057A", "U+057B", "U+057C", "U+057D", "U+057E",
    "U+057F", "U+0580", "U+0581", "U+0582", "U+0583", "U+0584", "U+0585", "U+0586", "U+0587",
    "U+0588", "U+10A0", "U+10A1", "U+10A2", "U+10A3", "U+10A4", "U+10A5", "U+10A6", "U+10A7",
    "U+10A8", "U+10A9", "U+10AA", "U+10AB", "U+10AC", "U+10AD", "U+10AE", "U+10AF", "U+10B0",
    "U+10B1", "U+10B2", "U+10B3", "U+10B4", "U+10B5", "U+10B6", "U+10B7", "U+10B8", "U+10B9",
    "U+10BA", "U+10BB", "U+10BC", "U+10BD", "U+10BE", "U+10BF", "U+10C0", "U+10C1", "U+10C2",
    "U+10C3", "U+10C4", "U+10C5", "U+10C7", "U+10CD", "U+10D0", "U+10D1", "U+10D2", "U+10D3",
    "U+10D4", "U+10D5", "U+10D6", "U+10D7", "U+10D8", "U+10D9", "U+10DA", "U+10DB", "U+10DC",
    "U+10DD", "U+10DE", "U+10DF", "U+10E0", "U+10E1", "U+10E2", "U+10E3", "U+10E4", "U+10E5",
    "U+10E6", "U+10E7", "U+10E8", "U+10E9", "U+10EA", "U+10EB", "U+10EC", "U+10ED", "U+10EE",
    "U+10EF", "U+10F0", "U+10F1", "U+10F2", "U+10F3", "U+10F4", "U+10F5", "U+10F6", "U+10F7",
    "U+10F8", "U+10F9", "U+10FA", "U+10FD", "U+10FE", "U+10FF", "U+13A0", "U+13A1", "U+13A2",
    "U+13A3", "U+13A4", "U+13A5", "U+13A6", "U+13A7", "U+13A8", "U+13A9", "U+13AA", "U+13AB",
    "U+13AC", "U+13AD", "U+13AE", "U+13AF", "U+13B0", "U+13B1", "U+13B2", "U+13B3", "U+13B4",
    "U+13B5", "U+13B6", "U+13B7", "U+13B8", "U+13B9", "U+13BA", "U+13BB", "U+13BC", "U+13BD",
    "U+13BE", "U+13BF", "U+13C0", "U+13C1", "U+13C2", "U+13C3", "U+13C4", "U+13C5", "U+13C6",
    "U+13C7", "U+13C8", "U+13C9", "U+13CA", "U+13CB", "U+13CC", "U+13CD", "U+13CE", "U+13CF",
    "U+13D0", "U+13D1", "U+13D2", "U+13D3", "U+13D4", "U+13D5", "U+13D6", "U+13D7", "U+13D8",
    "U+13D9", "U+13DA", "U+13DB", "U+13DC", "U+13DD", "U+13DE", "U+13DF", "U+13E0", "U+13E1",
    "U+13E2", "U+13E3", "U+13E4", "U+13E5", "U+13E6", "U+13E7", "U+13E8", "U+13E9", "U+13EA",
    "U+13EB", "U+13EC", "U+13ED", "U+13EE", "U+13EF", "U+13F0", "U+13F1", "U+13F2", "U+13F3",
    "U+13F4", "U+13F5", "U+13F8", "U+13F9", "U+13FA", "U+13FB", "U+13FC", "U+13FD", "U+1C80",
    "U+1C81", "U+1C82", "U+1C83", "U+1C84", "U+1C85", "U+1C86", "U+1C87", "U+1C88", "U+1C90",
    "U+1C91", "U+1C92", "U+1C93", "U+1C94", "U+1C95", "U+1C96", "U+1C97", "U+1C98", "U+1C99",
    "U+1C9A", "U+1C9B", "U+1C9C", "U+1C9D", "U+1C9E", "U+1C9F", "U+1CA0", "U+1CA1", "U+1CA2",
    "U+1CA3", "U+1CA4", "U+1CA5", "U+1CA6", "U+1CA7", "U+1CA8", "U+1CA9", "U+1CAA", "U+1CAB",
    "U+1CAC", "U+1CAD", "U+1CAE", "U+1CAF", "U+1CB0", "U+1CB1", "U+1CB2", "U+1CB3", "U+1CB4",
    "U+1CB5", "U+1CB6", "U+1CB7", "U+1CB8", "U+1CB9", "U+1CBA", "U+1CBD", "U+1CBE", "U+1CBF",
    "U+1D00", "U+1D01", "U+1D02", "U+1D03", "U+1D04", "U+1D05", "U+1D06", "U+1D07", "U+1D08",
    "U+1D09", "U+1D0A", "U+1D0B", "U+1D0C", "U+1D0D", "U+1D0E", "U+1D0F", "U+1D10", "U+1D11",
    "U+1D12", "U+1D13", "U+1D14", "U+1D15", "U+1D16", "U+1D17", "U+1D18", "U+1D19", "U+1D1A",
    "U+1D1B", "U+1D1C", "U+1D1D", "U+1D1E", "U+1D1F", "U+1D20", "U+1D21", "U+1D22", "U+1D23",
    "U+1D24", "U+1D25", "U+1D26", "U+1D27", "U+1D28", "U+1D29", "U+1D2A", "U+1D2B", "U+1D6B",
    "U+1D6C", "U+1D6D", "U+1D6E", "U+1D6F", "U+1D70", "U+1D71", "U+1D72", "U+1D73", "U+1D74",
    "U+1D75", "U+1D76", "U+1D77", "U+1D79", "U+1D7A", "U+1D7B", "U+1D7C", "U+1D7D", "U+1D7E",
    "U+1D7F", "U+1D80", "U+1D81", "U+1D82", "U+1D83", "U+1D84", "U+1D85", "U+1D86", "U+1D87",
    "U+1D88", "U+1D89", "U+1D8A", "U+1D8B", "U+1D8C", "U+1D8D", "U+1D8E", "U+1D8F", "U+1D90",
    "U+1D91", "U+1D92", "U+1D93", "U+1D94", "U+1D95", "U+1D96", "U+1D97", "U+1D98", "U+1D99",
    "U+1D9A", "U+1E00", "U+1E01", "U+1E02", "U+1E03", "U+1E04", "U+1E05", "U+1E06", "U+1E07",
    "U+1E08", "U+1E09", "U+1E0A", "U+1E0B", "U+1E0C", "U+1E0D", "U+1E0E", "U+1E0F", "U+1E10",
    "U+1E11", "U+1E12", "U+1E13", "U+1E14", "U+1E15", "U+1E16", "U+1E17", "U+1E18", "U+1E19",
    "U+1E1A", "U+1E1B", "U+1E1C", "U+1E1D", "U+1E1E", "U+1E1F", "U+1E20", "U+1E21", "U+1E22",
    "U+1E23", "U+1E24", "U+1E25", "U+1E26", "U+1E27", "U+1E28", "U+1E29", "U+1E2A", "U+1E2B",
    "U+1E2C", "U+1E2D", "U+1E2E", "U+1E2F", "U+1E30", "U+1E31", "U+1E32", "U+1E33", "U+1E34",
    "U+1E35", "U+1E36", "U+1E37", "U+1E38", "U+1E39", "U+1E3A", "U+1E3B", "U+1E3C", "U+1E3D",
    "U+1E3E", "U+1E3F", "U+1E40", "U+1E41", "U+1E42", "U+1E43", "U+1E44", "U+1E45", "U+1E46",
    "U+1E47", "U+1E48", "U+1E49", "U+1E4A", "U+1E4B", "U+1E4C", "U+1E4D", "U+1E4E", "U+1E4F",
    "U+1E50", "U+1E51", "U+1E52", "U+1E53", "U+1E54", "U+1E55", "U+1E56", "U+1E57", "U+1E58",
    "U+1E59", "U+1E5A", "U+1E5B", "U+1E5C", "U+1E5D", "U+1E5E", "U+1E5F", "U+1E60", "U+1E61",
    "U+1E62", "U+1E63", "U+1E64", "U+1E65", "U+1E66", "U+1E67", "U+1E68", "U+1E69", "U+1E6A",
    "U+1E6B", "U+1E6C", "U+1E6D", "U+1E6E", "U+1E6F", "U+1E70", "U+1E71", "U+1E72", "U+1E73",
    "U+1E74", "U+1E75", "U+1E76", "U+1E77", "U+1E78", "U+1E79", "U+1E7A", "U+1E7B", "U+1E7C",
    "U+1E7D", "U+1E7E", "U+1E7F", "U+1E80", "U+1E81", "U+1E82", "U+1E83", "U+1E84", "U+1E85",
    "U+1E86", "U+1E87", "U+1E88", "U+1E89", "U+1E8A", "U+1E8B", "U+1E8C", "U+1E8D", "U+1E8E",
    "U+1E8F", "U+1E90", "U+1E91", "U+1E92", "U+1E93", "U+1E94", "U+1E95", "U+1E96", "U+1E97",
    "U+1E98", "U+1E99", "U+1E9A", "U+1E9B", "U+1E9C", "U+1E9D", "U+1E9E", "U+1E9F", "U+1EA0",
    "U+1EA1", "U+1EA2", "U+1EA3", "U+1EA4", "U+1EA5", "U+1EA6", "U+1EA7", "U+1EA8", "U+1EA9",
    "U+1EAA", "U+1EAB", "U+1EAC", "U+1EAD", "U+1EAE", "U+1EAF", "U+1EB0", "U+1EB1", "U+1EB2",
    "U+1EB3", "U+1EB4", "U+1EB5", "U+1EB6", "U+1EB7", "U+1EB8", "U+1EB9", "U+1EBA", "U+1EBB",
    "U+1EBC", "U+1EBD", "U+1EBE", "U+1EBF", "U+1EC0", "U+1EC1", "U+1EC2", "U+1EC3", "U+1EC4",
    "U+1EC5", "U+1EC6", "U+1EC7", "U+1EC8", "U+1EC9", "U+1ECA", "U+1ECB", "U+1ECC", "U+1ECD",
    "U+1ECE", "U+1ECF", "U+1ED0", "U+1ED1", "U+1ED2", "U+1ED3", "U+1ED4", "U+1ED5", "U+1ED6",
    "U+1ED7", "U+1ED8", "U+1ED9", "U+1EDA", "U+1EDB", "U+1EDC", "U+1EDD", "U+1EDE", "U+1EDF",
    "U+1EE0", "U+1EE1", "U+1EE2", "U+1EE3", "U+1EE4", "U+1EE5", "U+1EE6", "U+1EE7", "U+1EE8",
    "U+1EE9", "U+1EEA", "U+1EEB", "U+1EEC", "U+1EED", "U+1EEE", "U+1EEF", "U+1EF0", "U+1EF1",
    "U+1EF2", "U+1EF3", "U+1EF4", "U+1EF5", "U+1EF6", "U+1EF7", "U+1EF8", "U+1EF9", "U+1EFA",
    "U+1EFB", "U+1EFC", "U+1EFD", "U+1EFE", "U+1EFF", "U+1F00", "U+1F01", "U+1F02", "U+1F03",
    "U+1F04", "U+1F05", "U+1F06", "U+1F07", "U+1F08", "U+1F09", "U+1F0A", "U+1F0B", "U+1F0C",
    "U+1F0D", "U+1F0E", "U+1F0F", "U+1F10", "U+1F11", "U+1F12", "U+1F13", "U+1F14", "U+1F15",
    "U+1F18", "U+1F19", "U+1F1A", "U+1F1B", "U+1F1C", "U+1F1D", "U+1F20", "U+1F21", "U+1F22",
    "U+1F23", "U+1F24", "U+1F25", "U+1F26", "U+1F27", "U+1F28", "U+1F29", "U+1F2A", "U+1F2B",
    "U+1F2C", "U+1F2D", "U+1F2E", "U+1F2F", "U+1F30", "U+1F31", "U+1F32", "U+1F33", "U+1F34",
    "U+1F35", "U+1F36", "U+1F37", "U+1F38", "U+1F39", "U+1F3A", "U+1F3B", "U+1F3C", "U+1F3D",
    "U+1F3E", "U+1F3F", "U+1F40", "U+1F41", "U+1F42", "U+1F43", "U+1F44", "U+1F45", "U+1F48",
    "U+1F49", "U+1F4A", "U+1F4B", "U+1F4C", "U+1F4D", "U+1F50", "U+1F51", "U+1F52", "U+1F53",
    "U+1F54", "U+1F55", "U+1F56", "U+1F57", "U+1F59", "U+1F5B", "U+1F5D", "U+1F5F", "U+1F60",
    "U+1F61", "U+1F62", "U+1F63", "U+1F64", "U+1F65", "U+1F66", "U+1F67", "U+1F68", "U+1F69",
    "U+1F6A", "U+1F6B", "U+1F6C", "U+1F6D", "U+1F6E", "U+1F6F", "U+1F70", "U+1F71", "U+1F72",
    "U+1F73", "U+1F74", "U+1F75", "U+1F76", "U+1F77", "U+1F78", "U+1F79", "U+1F7A", "U+1F7B",
    "U+1F7C", "U+1F7D", "U+1F80", "U+1F81", "U+1F82", "U+1F83", "U+1F84", "U+1F85", "U+1F86",
    "U+1F87", "U+1F88", "U+1F89", "U+1F8A", "U+1F8B", "U+1F8C", "U+1F8D", "U+1F8E", "U+1F8F",
    "U+1F90", "U+1F91", "U+1F92", "U+1F93", "U+1F94", "U+1F95", "U+1F96", "U+1F97", "U+1F98",
    "U+1F99", "U+1F9A", "U+1F9B", "U+1F9C", "U+1F9D", "U+1F9E", "U+1F9F", "U+1FA0", "U+1FA1",
    "U+1FA2", "U+1FA3", "U+1FA4", "U+1FA5", "U+1FA6", "U+1FA7", "U+1FA8", "U+1FA9", "U+1FAA",
    "U+1FAB", "U+1FAC", "U+1FAD", "U+1FAE", "U+1FAF", "U+1FB0", "U+1FB1", "U+1FB2", "U+1FB3",
    "U+1FB4", "U+1FB6", "U+1FB7", "U+1FB8", "U+1FB9", "U+1FBA", "U+1FBB", "U+1FBC", "U+1FBE",
    "U+1FC2", "U+1FC3", "U+1FC4", "U+1FC6", "U+1FC7", "U+1FC8", "U+1FC9", "U+1FCA", "U+1FCB",
    "U+1FCC", "U+1FD0", "U+1FD1", "U+1FD2", "U+1FD3", "U+1FD6", "U+1FD7", "U+1FD8", "U+1FD9",
    "U+1FDA", "U+1FDB", "U+1FE0", "U+1FE1", "U+1FE2", "U+1FE3", "U+1FE4", "U+1FE5", "U+1FE6",
    "U+1FE7", "U+1FE8", "U+1FE9", "U+1FEA", "U+1FEB", "U+1FEC", "U+1FF2", "U+1FF3", "U+1FF4",
    "U+1FF6", "U+1FF7", "U+1FF8", "U+1FF9", "U+1FFA", "U+1FFB", "U+1FFC", "U+2102", "U+2107",
    "U+210A", "U+210B", "U+210C", "U+210D", "U+210E", "U+210F", "U+2110", "U+2111", "U+2112",
    "U+2113", "U+2115", "U+2119", "U+211A", "U+211B", "U+211C", "U+211D", "U+2124", "U+2126",
    "U+2128", "U+212A", "U+212B", "U+212C", "U+212D", "U+212F", "U+2130", "U+2131", "U+2132",
    "U+2133", "U+2134", "U+2139", "U+213C", "U+213D", "U+213E", "U+213F", "U+2145", "U+2146",
    "U+2147", "U+2148", "U+2149", "U+214E", "U+2160", "U+2161", "U+2162", "U+2163", "U+2164",
    "U+2165", "U+2166", "U+2167", "U+2168", "U+2169", "U+216A", "U+216B", "U+216C", "U+216D",
    "U+216E", "U+216F", "U+2170", "U+2171", "U+2172", "U+2173", "U+2174", "U+2175", "U+2176",
    "U+2177", "U+2178", "U+2179", "U+217A", "U+217B", "U+217C", "U+217D", "U+217E", "U+217F",
    "U+2183", "U+2184", "U+24B6", "U+24B7", "U+24B8", "U+24B9", "U+24BA", "U+24BB", "U+24BC",
    "U+24BD", "U+24BE", "U+24BF", "U+24C0", "U+24C1", "U+24C2", "U+24C3", "U+24C4", "U+24C5",
    "U+24C6", "U+24C7", "U+24C8", "U+24C9", "U+24CA", "U+24CB", "U+24CC", "U+24CD", "U+24CE",
    "U+24CF", "U+24D0", "U+24D1", "U+24D2", "U+24D3", "U+24D4", "U+24D5", "U+24D6", "U+24D7",
    "U+24D8", "U+24D9", "U+24DA", "U+24DB", "U+24DC", "U+24DD", "U+24DE", "U+24DF", "U+24E0",
    "U+24E1", "U+24E2", "U+24E3", "U+24E4", "U+24E5", "U+24E6", "U+24E7", "U+24E8", "U+24E9",
    "U+2C00", "U+2C01", "U+2C02", "U+2C03", "U+2C04", "U+2C05", "U+2C06", "U+2C07", "U+2C08",
    "U+2C09", "U+2C0A", "U+2C0B", "U+2C0C", "U+2C0D", "U+2C0E", "U+2C0F", "U+2C10", "U+2C11",
    "U+2C12", "U+2C13", "U+2C14", "U+2C15", "U+2C16", "U+2C17", "U+2C18", "U+2C19", "U+2C1A",
    "U+2C1B", "U+2C1C", "U+2C1D", "U+2C1E", "U+2C1F", "U+2C20", "U+2C21", "U+2C22", "U+2C23",
    "U+2C24", "U+2C25", "U+2C26", "U+2C27", "U+2C28", "U+2C29", "U+2C2A", "U+2C2B", "U+2C2C",
    "U+2C2D", "U+2C2E", "U+2C2F", "U+2C30", "U+2C31", "U+2C32", "U+2C33", "U+2C34", "U+2C35",
    "U+2C36", "U+2C37", "U+2C38", "U+2C39", "U+2C3A", "U+2C3B", "U+2C3C", "U+2C3D", "U+2C3E",
    "U+2C3F", "U+2C40", "U+2C41", "U+2C42", "U+2C43", "U+2C44", "U+2C45", "U+2C46", "U+2C47",
    "U+2C48", "U+2C49", "U+2C4A", "U+2C4B", "U+2C4C", "U+2C4D", "U+2C4E", "U+2C4F", "U+2C50",
    "U+2C51", "U+2C52", "U+2C53", "U+2C54", "U+2C55", "U+2C56", "U+2C57", "U+2C58", "U+2C59",
    "U+2C5A", "U+2C5B", "U+2C5C", "U+2C5D", "U+2C5E", "U+2C5F", "U+2C60", "U+2C61", "U+2C62",
    "U+2C63", "U+2C64", "U+2C65", "U+2C66", "U+2C67", "U+2C68", "U+2C69", "U+2C6A", "U+2C6B",
    "U+2C6C", "U+2C6D", "U+2C6E", "U+2C6F", "U+2C70", "U+2C71", "U+2C72", "U+2C73", "U+2C74",
    "U+2C75", "U+2C76", "U+2C77", "U+2C78", "U+2C79", "U+2C7A", "U+2C7B", "U+2C7E", "U+2C7F",
    "U+2C80", "U+2C81", "U+2C82", "U+2C83", "U+2C84", "U+2C85", "U+2C86", "U+2C87", "U+2C88",
    "U+2C89", "U+2C8A", "U+2C8B", "U+2C8C", "U+2C8D", "U+2C8E", "U+2C8F", "U+2C90", "U+2C91",
    "U+2C92", "U+2C93", "U+2C94", "U+2C95", "U+2C96", "U+2C97", "U+2C98", "U+2C99", "U+2C9A",
    "U+2C9B", "U+2C9C", "U+2C9D", "U+2C9E", "U+2C9F", "U+2CA0", "U+2CA1", "U+2CA2", "U+2CA3",
    "U+2CA4", "U+2CA5", "U+2CA6", "U+2CA7", "U+2CA8", "U+2CA9", "U+2CAA", "U+2CAB", "U+2CAC",
    "U+2CAD", "U+2CAE", "U+2CAF", "U+2CB0", "U+2CB1", "U+2CB2", "U+2CB3", "U+2CB4", "U+2CB5",
    "U+2CB6", "U+2CB7", "U+2CB8", "U+2CB9", "U+2CBA", "U+2CBB", "U+2CBC", "U+2CBD", "U+2CBE",
    "U+2CBF", "U+2CC0", "U+2CC1", "U+2CC2", "U+2CC3", "U+2CC4", "U+2CC5", "U+2CC6", "U+2CC7",
    "U+2CC8", "U+2CC9", "U+2CCA", "U+2CCB", "U+2CCC", "U+2CCD", "U+2CCE", "U+2CCF", "U+2CD0",
    "U+2CD1", "U+2CD2", "U+2CD3", "U+2CD4", "U+2CD5", "U+2CD6", "U+2CD7", "U+2CD8", "U+2CD9",
    "U+2CDA", "U+2CDB", "U+2CDC", "U+2CDD", "U+2CDE", "U+2CDF", "U+2CE0", "U+2CE1", "U+2CE2",
    "U+2CE3", "U+2CE4", "U+2CEB", "U+2CEC", "U+2CED", "U+2CEE", "U+2CF2", "U+2CF3", "U+2D00",
    "U+2D01", "U+2D02", "U+2D03", "U+2D04", "U+2D05", "U+2D06", "U+2D07", "U+2D08", "U+2D09",
    "U+2D0A", "U+2D0B", "U+2D0C", "U+2D0D", "U+2D0E", "U+2D0F", "U+2D10", "U+2D11", "U+2D12",
    "U+2D13", "U+2D14", "U+2D15", "U+2D16", "U+2D17", "U+2D18", "U+2D19", "U+2D1A", "U+2D1B",
    "U+2D1C", "U+2D1D", "U+2D1E", "U+2D1F", "U+2D20", "U+2D21", "U+2D22", "U+2D23", "U+2D24",
    "U+2D25", "U+2D27", "U+2D2D", "U+A640", "U+A641", "U+A642", "U+A643", "U+A644", "U+A645",
    "U+A646", "U+A647", "U+A648", "U+A649", "U+A64A", "U+A64B", "U+A64C", "U+A64D", "U+A64E",
    "U+A64F", "U+A650", "U+A651", "U+A652", "U+A653", "U+A654", "U+A655", "U+A656", "U+A657",
    "U+A658", "U+A659", "U+A65A", "U+A65B", "U+A65C", "U+A65D", "U+A65E", "U+A65F", "U+A660",
    "U+A661", "U+A662", "U+A663", "U+A664", "U+A665", "U+A666", "U+A667", "U+A668", "U+A669",
    "U+A66A", "U+A66B", "U+A66C", "U+A66D", "U+A680", "U+A681", "U+A682", "U+A683", "U+A684",
    "U+A685", "U+A686", "U+A687", "U+A688", "U+A689", "U+A68A", "U+A68B", "U+A68C", "U+A68D",
    "U+A68E", "U+A68F", "U+A690", "U+A691", "U+A692", "U+A693", "U+A694", "U+A695", "U+A696",
    "U+A697", "U+A698", "U+A699", "U+A69A", "U+A69B", "U+A722", "U+A723", "U+A724", "U+A725",
    "U+A726", "U+A727", "U+A728", "U+A729", "U+A72A", "U+A72B", "U+A72C", "U+A72D", "U+A72E",
    "U+A72F", "U+A730", "U+A731", "U+A732", "U+A733", "U+A734", "U+A735", "U+A736", "U+A737",
    "U+A738", "U+A739", "U+A73A", "U+A73B", "U+A73C", "U+A73D", "U+A73E", "U+A73F", "U+A740",
    "U+A741", "U+A742", "U+A743", "U+A744", "U+A745", "U+A746", "U+A747", "U+A748", "U+A749",
    "U+A74A", "U+A74B", "U+A74C", "U+A74D", "U+A74E", "U+A74F", "U+A750", "U+A751", "U+A752",
    "U+A753", "U+A754", "U+A755", "U+A756", "U+A757", "U+A758", "U+A759", "U+A75A", "U+A75B",
    "U+A75C", "U+A75D", "U+A75E", "U+A75F", "U+A760", "U+A761", "U+A762", "U+A763", "U+A764",
    "U+A765", "U+A766", "U+A767", "U+A768", "U+A769", "U+A76A", "U+A76B", "U+A76C", "U+A76D",
    "U+A76E", "U+A76F", "U+A771", "U+A772", "U+A773", "U+A774", "U+A775", "U+A776", "U+A777",
    "U+A778", "U+A779", "U+A77A", "U+A77B", "U+A77C", "U+A77D", "U+A77E", "U+A77F", "U+A780",
    "U+A781", "U+A782", "U+A783", "U+A784", "U+A785", "U+A786", "U+A787", "U+A78B", "U+A78C",
    "U+A78D", "U+A78E", "U+A790", "U+A791", "U+A792", "U+A793", "U+A794", "U+A795", "U+A796",
    "U+A797", "U+A798", "U+A799", "U+A79A", "U+A79B", "U+A79C", "U+A79D", "U+A79E", "U+A79F",
    "U+A7A0", "U+A7A1", "U+A7A2", "U+A7A3", "U+A7A4", "U+A7A5", "U+A7A6", "U+A7A7", "U+A7A8",
    "U+A7A9", "U+A7AA", "U+A7AB", "U+A7AC", "U+A7AD", "U+A7AE", "U+A7AF", "U+A7B0", "U+A7B1",
    "U+A7B2", "U+A7B3", "U+A7B4", "U+A7B5", "U+A7B6", "U+A7B7", "U+A7B8", "U+A7B9", "U+A7BA",
    "U+A7BB", "U+A7BC", "U+A7BD", "U+A7BE", "U+A7BF", "U+A7C0", "U+A7C1", "U+A7C2", "U+A7C3",
    "U+A7C4", "U+A7C5", "U+A7C6", "U+A7C7", "U+A7C8", "U+A7C9", "U+A7CA", "U+A7D0", "U+A7D1",
    "U+A7D3", "U+A7D5", "U+A7D6", "U+A7D7", "U+A7D8", "U+A7D9", "U+A7F5", "U+A7F6", "U+A7FA",
    "U+AB30", "U+AB31", "U+AB32", "U+AB33", "U+AB34", "U+AB35", "U+AB36", "U+AB37", "U+AB38",
    "U+AB39", "U+AB3A", "U+AB3B", "U+AB3C", "U+AB3D", "U+AB3E", "U+AB3F", "U+AB40", "U+AB41",
    "U+AB42", "U+AB43", "U+AB44", "U+AB45", "U+AB46", "U+AB47", "U+AB48", "U+AB49", "U+AB4A",
    "U+AB4B", "U+AB4C", "U+AB4D", "U+AB4E", "U+AB4F", "U+AB50", "U+AB51", "U+AB52", "U+AB53",
    "U+AB54", "U+AB55", "U+AB56", "U+AB57", "U+AB58", "U+AB59", "U+AB5A", "U+AB60", "U+AB61",
    "U+AB62", "U+AB63", "U+AB64", "U+AB65", "U+AB66", "U+AB67", "U+AB68", "U+AB70", "U+AB71",
    "U+AB72", "U+AB73", "U+AB74", "U+AB75", "U+AB76", "U+AB77", "U+AB78", "U+AB79", "U+AB7A",
    "U+AB7B", "U+AB7C", "U+AB7D", "U+AB7E", "U+AB7F", "U+AB80", "U+AB81", "U+AB82", "U+AB83",
    "U+AB84", "U+AB85", "U+AB86", "U+AB87", "U+AB88", "U+AB89", "U+AB8A", "U+AB8B", "U+AB8C",
    "U+AB8D", "U+AB8E", "U+AB8F", "U+AB90", "U+AB91", "U+AB92", "U+AB93", "U+AB94", "U+AB95",
    "U+AB96", "U+AB97", "U+AB98", "U+AB99", "U+AB9A", "U+AB9B", "U+AB9C", "U+AB9D", "U+AB9E",
    "U+AB9F", "U+ABA0", "U+ABA1", "U+ABA2", "U+ABA3", "U+ABA4", "U+ABA5", "U+ABA6", "U+ABA7",
    "U+ABA8", "U+ABA9", "U+ABAA", "U+ABAB", "U+ABAC", "U+ABAD", "U+ABAE", "U+ABAF", "U+ABB0",
    "U+ABB1", "U+ABB2", "U+ABB3", "U+ABB4", "U+ABB5", "U+ABB6", "U+ABB7", "U+ABB8", "U+ABB9",
    "U+ABBA", "U+ABBB", "U+ABBC", "U+ABBD", "U+ABBE", "U+ABBF", "U+FB00", "U+FB01", "U+FB02",
    "U+FB03", "U+FB04", "U+FB05", "U+FB06", "U+FB13", "U+FB14", "U+FB15", "U+FB16", "U+FB17",
    "U+FF21", "U+FF22", "U+FF23", "U+FF24", "U+FF25", "U+FF26", "U+FF27", "U+FF28", "U+FF29",
    "U+FF2A", "U+FF2B", "U+FF2C", "U+FF2D", "U+FF2E", "U+FF2F", "U+FF30", "U+FF31", "U+FF32",
    "U+FF33", "U+FF34", "U+FF35", "U+FF36", "U+FF37", "U+FF38", "U+FF39", "U+FF3A", "U+FF41",
    "U+FF42", "U+FF43", "U+FF44", "U+FF45", "U+FF46", "U+FF47", "U+FF48", "U+FF49", "U+FF4A",
    "U+FF4B", "U+FF4C", "U+FF4D", "U+FF4E", "U+FF4F", "U+FF50", "U+FF51", "U+FF52", "U+FF53",
    "U+FF54", "U+FF55", "U+FF56", "U+FF57", "U+FF58", "U+FF59", "U+FF5A", "U+10400", "U+10401",
    "U+10402", "U+10403", "U+10404", "U+10405", "U+10406", "U+10407", "U+10408", "U+10409",
    "U+1040A", "U+1040B", "U+1040C", "U+1040D", "U+1040E", "U+1040F", "U+10410", "U+10411",
    "U+10412", "U+10413", "U+10414", "U+10415", "U+10416", "U+10417", "U+10418", "U+10419",
    "U+1041A", "U+1041B", "U+1041C", "U+1041D", "U+1041E", "U+1041F", "U+10420", "U+10421",
    "U+10422", "U+10423", "U+10424", "U+10425", "U+10426", "U+10427", "U+10428", "U+10429",
    "U+1042A", "U+1042B", "U+1042C", "U+1042D", "U+1042E", "U+1042F", "U+10430", "U+10431",
    "U+10432", "U+10433", "U+10434", "U+10435", "U+10436", "U+10437", "U+10438", "U+10439",
    "U+1043A", "U+1043B", "U+1043C", "U+1043D", "U+1043E", "U+1043F", "U+10440", "U+10441",
    "U+10442", "U+10443", "U+10444", "U+10445", "U+10446", "U+10447", "U+10448", "U+10449",
    "U+1044A", "U+1044B", "U+1044C", "U+1044D", "U+1044E", "U+1044F", "U+104B0", "U+104B1",
    "U+104B2", "U+104B3", "U+104B4", "U+104B5", "U+104B6", "U+104B7", "U+104B8", "U+104B9",
    "U+104BA", "U+104BB", "U+104BC", "U+104BD", "U+104BE", "U+104BF", "U+104C0", "U+104C1",
    "U+104C2", "U+104C3", "U+104C4", "U+104C5", "U+104C6", "U+104C7", "U+104C8", "U+104C9",
    "U+104CA", "U+104CB", "U+104CC", "U+104CD", "U+104CE", "U+104CF", "U+104D0", "U+104D1",
    "U+104D2", "U+104D3", "U+104D8", "U+104D9", "U+104DA", "U+104DB", "U+104DC", "U+104DD",
    "U+104DE", "U+104DF", "U+104E0", "U+104E1", "U+104E2", "U+104E3", "U+104E4", "U+104E5",
    "U+104E6", "U+104E7", "U+104E8", "U+104E9", "U+104EA", "U+104EB", "U+104EC", "U+104ED",
    "U+104EE", "U+104EF", "U+104F0", "U+104F1", "U+104F2", "U+104F3", "U+104F4", "U+104F5",
    "U+104F6", "U+104F7", "U+104F8", "U+104F9", "U+104FA", "U+104FB", "U+10570", "U+10571",
    "U+10572", "U+10573", "U+10574", "U+10575", "U+10576", "U+10577", "U+10578", "U+10579",
    "U+1057A", "U+1057C", "U+1057D", "U+1057E", "U+1057F", "U+10580", "U+10581", "U+10582",
    "U+10583", "U+10584", "U+10585", "U+10586", "U+10587", "U+10588", "U+10589", "U+1058A",
    "U+1058C", "U+1058D", "U+1058E", "U+1058F", "U+10590", "U+10591", "U+10592", "U+10594",
    "U+10595", "U+10597", "U+10598", "U+10599", "U+1059A", "U+1059B", "U+1059C", "U+1059D",
    "U+1059E", "U+1059F", "U+105A0", "U+105A1", "U+105A3", "U+105A4", "U+105A5", "U+105A6",
    "U+105A7", "U+105A8", "U+105A9", "U+105AA", "U+105AB", "U+105AC", "U+105AD", "U+105AE",
    "U+105AF", "U+105B0", "U+105B1", "U+105B3", "U+105B4", "U+105B5", "U+105B6", "U+105B7",
    "U+105B8", "U+105B9", "U+105BB", "U+105BC", "U+10C80", "U+10C81", "U+10C82", "U+10C83",
    "U+10C84", "U+10C85", "U+10C86", "U+10C87", "U+10C88", "U+10C89", "U+10C8A", "U+10C8B",
    "U+10C8C", "U+10C8D", "U+10C8E", "U+10C8F", "U+10C90", "U+10C91", "U+10C92", "U+10C93",
    "U+10C94", "U+10C95", "U+10C96", "U+10C97", "U+10C98", "U+10C99", "U+10C9A", "U+10C9B",
    "U+10C9C", "U+10C9D", "U+10C9E", "U+10C9F", "U+10CA0", "U+10CA1", "U+10CA2", "U+10CA3",
    "U+10CA4", "U+10CA5", "U+10CA6", "U+10CA7", "U+10CA8", "U+10CA9", "U+10CAA", "U+10CAB",
    "U+10CAC", "U+10CAD", "U+10CAE", "U+10CAF", "U+10CB0", "U+10CB1", "U+10CB2", "U+10CC0",
    "U+10CC1", "U+10CC2", "U+10CC3", "U+10CC4", "U+10CC5", "U+10CC6", "U+10CC7", "U+10CC8",
    "U+10CC9", "U+10CCA", "U+10CCB", "U+10CCC", "U+10CCD", "U+10CCE", "U+10CCF", "U+10CD0",
    "U+10CD1", "U+10CD2", "U+10CD3", "U+10CD4", "U+10CD5", "U+10CD6", "U+10CD7", "U+10CD8",
    "U+10CD9", "U+10CDA", "U+10CDB", "U+10CDC", "U+10CDD", "U+10CDE", "U+10CDF", "U+10CE0",
    "U+10CE1", "U+10CE2", "U+10CE3", "U+10CE4", "U+10CE5", "U+10CE6", "U+10CE7", "U+10CE8",
    "U+10CE9", "U+10CEA", "U+10CEB", "U+10CEC", "U+10CED", "U+10CEE", "U+10CEF", "U+10CF0",
    "U+10CF1", "U+10CF2", "U+118A0", "U+118A1", "U+118A2", "U+118A3", "U+118A4", "U+118A5",
    "U+118A6", "U+118A7", "U+118A8", "U+118A9", "U+118AA", "U+118AB", "U+118AC", "U+118AD",
    "U+118AE", "U+118AF", "U+118B0", "U+118B1", "U+118B2", "U+118B3", "U+118B4", "U+118B5",
    "U+118B6", "U+118B7", "U+118B8", "U+118B9", "U+118BA", "U+118BB", "U+118BC", "U+118BD",
    "U+118BE", "U+118BF", "U+118C0", "U+118C1", "U+118C2", "U+118C3", "U+118C4", "U+118C5",
    "U+118C6", "U+118C7", "U+118C8", "U+118C9", "U+118CA", "U+118CB", "U+118CC", "U+118CD",
    "U+118CE", "U+118CF", "U+118D0", "U+118D1", "U+118D2", "U+118D3", "U+118D4", "U+118D5",
    "U+118D6", "U+118D7", "U+118D8", "U+118D9", "U+118DA", "U+118DB", "U+118DC", "U+118DD",
    "U+118DE", "U+118DF", "U+16E40", "U+16E41", "U+16E42", "U+16E43", "U+16E44", "U+16E45",
    "U+16E46", "U+16E47", "U+16E48", "U+16E49", "U+16E4A", "U+16E4B", "U+16E4C", "U+16E4D",
    "U+16E4E", "U+16E4F", "U+16E50", "U+16E51", "U+16E52", "U+16E53", "U+16E54", "U+16E55",
    "U+16E56", "U+16E57", "U+16E58", "U+16E59", "U+16E5A", "U+16E5B", "U+16E5C", "U+16E5D",
    "U+16E5E", "U+16E5F", "U+16E60", "U+16E61", "U+16E62", "U+16E63", "U+16E64", "U+16E65",
    "U+16E66", "U+16E67", "U+16E68", "U+16E69", "U+16E6A", "U+16E6B", "U+16E6C", "U+16E6D",
    "U+16E6E", "U+16E6F", "U+16E70", "U+16E71", "U+16E72", "U+16E73", "U+16E74", "U+16E75",
    "U+16E76", "U+16E77", "U+16E78", "U+16E79", "U+16E7A", "U+16E7B", "U+16E7C", "U+16E7D",
    "U+16E7E", "U+16E7F", "U+1D400", "U+1D401", "U+1D402", "U+1D403", "U+1D404", "U+1D405",
    "U+1D406", "U+1D407", "U+1D408", "U+1D409", "U+1D40A", "U+1D40B", "U+1D40C", "U+1D40D",
    "U+1D40E", "U+1D40F", "U+1D410", "U+1D411", "U+1D412", "U+1D413", "U+1D414", "U+1D415",
    "U+1D416", "U+1D417", "U+1D418", "U+1D419", "U+1D41A", "U+1D41B", "U+1D41C", "U+1D41D",
    "U+1D41E", "U+1D41F", "U+1D420", "U+1D421", "U+1D422", "U+1D423", "U+1D424", "U+1D425",
    "U+1D426", "U+1D427", "U+1D428", "U+1D429", "U+1D42A", "U+1D42B", "U+1D42C", "U+1D42D",
    "U+1D42E", "U+1D42F", "U+1D430", "U+1D431", "U+1D432", "U+1D433", "U+1D434", "U+1D435",
    "U+1D436", "U+1D437", "U+1D438", "U+1D439", "U+1D43A", "U+1D43B", "U+1D43C", "U+1D43D",
    "U+1D43E", "U+1D43F", "U+1D440", "U+1D441", "U+1D442", "U+1D443", "U+1D444", "U+1D445",
    "U+1D446", "U+1D447", "U+1D448", "U+1D449", "U+1D44A", "U+1D44B", "U+1D44C", "U+1D44D",
    "U+1D44E", "U+1D44F", "U+1D450", "U+1D451", "U+1D452", "U+1D453", "U+1D454", "U+1D456",
    "U+1D457", "U+1D458", "U+1D459", "U+1D45A", "U+1D45B", "U+1D45C", "U+1D45D", "U+1D45E",
    "U+1D45F", "U+1D460", "U+1D461", "U+1D462", "U+1D463", "U+1D464", "U+1D465", "U+1D466",
    "U+1D467", "U+1D468", "U+1D469", "U+1D46A", "U+1D46B", "U+1D46C", "U+1D46D", "U+1D46E",
    "U+1D46F", "U+1D470", "U+1D471", "U+1D472", "U+1D473", "U+1D474", "U+1D475", "U+1D476",
    "U+1D477", "U+1D478", "U+1D479", "U+1D47A", "U+1D47B", "U+1D47C", "U+1D47D", "U+1D47E",
    "U+1D47F", "U+1D480", "U+1D481", "U+1D482", "U+1D483", "U+1D484", "U+1D485", "U+1D486",
    "U+1D487", "U+1D488", "U+1D489", "U+1D48A", "U+1D48B", "U+1D48C", "U+1D48D", "U+1D48E",
    "U+1D48F", "U+1D490", "U+1D491", "U+1D492", "U+1D493", "U+1D494", "U+1D495", "U+1D496",
    "U+1D497", "U+1D498", "U+1D499", "U+1D49A", "U+1D49B", "U+1D49C", "U+1D49E", "U+1D49F",
    "U+1D4A2", "U+1D4A5", "U+1D4A6", "U+1D4A9", "U+1D4AA", "U+1D4AB", "U+1D4AC", "U+1D4AE",
    "U+1D4AF", "U+1D4B0", "U+1D4B1", "U+1D4B2", "U+1D4B3", "U+1D4B4", "U+1D4B5", "U+1D4B6",
    "U+1D4B7", "U+1D4B8", "U+1D4B9", "U+1D4BB", "U+1D4BD", "U+1D4BE", "U+1D4BF", "U+1D4C0",
    "U+1D4C1", "U+1D4C2", "U+1D4C3", "U+1D4C5", "U+1D4C6", "U+1D4C7", "U+1D4C8", "U+1D4C9",
    "U+1D4CA", "U+1D4CB", "U+1D4CC", "U+1D4CD", "U+1D4CE", "U+1D4CF", "U+1D4D0", "U+1D4D1",
    "U+1D4D2", "U+1D4D3", "U+1D4D4", "U+1D4D5", "U+1D4D6", "U+1D4D7", "U+1D4D8", "U+1D4D9",
    "U+1D4DA", "U+1D4DB", "U+1D4DC", "U+1D4DD", "U+1D4DE", "U+1D4DF", "U+1D4E0", "U+1D4E1",
    "U+1D4E2", "U+1D4E3", "U+1D4E4", "U+1D4E5", "U+1D4E6", "U+1D4E7", "U+1D4E8", "U+1D4E9",
    "U+1D4EA", "U+1D4EB", "U+1D4EC", "U+1D4ED", "U+1D4EE", "U+1D4EF", "U+1D4F0", "U+1D4F1",
    "U+1D4F2", "U+1D4F3", "U+1D4F4", "U+1D4F5", "U+1D4F6", "U+1D4F7", "U+1D4F8", "U+1D4F9",
    "U+1D4FA", "U+1D4FB", "U+1D4FC", "U+1D4FD", "U+1D4FE", "U+1D4FF", "U+1D500", "U+1D501",
    "U+1D502", "U+1D503", "U+1D504", "U+1D505", "U+1D507", "U+1D508", "U+1D509", "U+1D50A",
    "U+1D50D", "U+1D50E", "U+1D50F", "U+1D510", "U+1D511", "U+1D512", "U+1D513", "U+1D514",
    "U+1D516", "U+1D517", "U+1D518", "U+1D519", "U+1D51A", "U+1D51B", "U+1D51C", "U+1D51E",
    "U+1D51F", "U+1D520", "U+1D521", "U+1D522", "U+1D523", "U+1D524", "U+1D525", "U+1D526",
    "U+1D527", "U+1D528", "U+1D529", "U+1D52A", "U+1D52B", "U+1D52C", "U+1D52D", "U+1D52E",
    "U+1D52F", "U+1D530", "U+1D531", "U+1D532", "U+1D533", "U+1D534", "U+1D535", "U+1D536",
    "U+1D537", "U+1D538", "U+1D539", "U+1D53B", "U+1D53C", "U+1D53D", "U+1D53E", "U+1D540",
    "U+1D541", "U+1D542", "U+1D543", "U+1D544", "U+1D546", "U+1D54A", "U+1D54B", "U+1D54C",
    "U+1D54D", "U+1D54E", "U+1D54F", "U+1D550", "U+1D552", "U+1D553", "U+1D554", "U+1D555",
    "U+1D556", "U+1D557", "U+1D558", "U+1D559", "U+1D55A", "U+1D55B", "U+1D55C", "U+1D55D",
    "U+1D55E", "U+1D55F", "U+1D560", "U+1D561", "U+1D562", "U+1D563", "U+1D564", "U+1D565",
    "U+1D566", "U+1D567", "U+1D568", "U+1D569", "U+1D56A", "U+1D56B", "U+1D56C", "U+1D56D",
    "U+1D56E", "U+1D56F", "U+1D570", "U+1D571", "U+1D572", "U+1D573", "U+1D574", "U+1D575",
    "U+1D576", "U+1D577", "U+1D578", "U+1D579", "U+1D57A", "U+1D57B", "U+1D57C", "U+1D57D",
    "U+1D57E", "U+1D57F", "U+1D580", "U+1D581", "U+1D582", "U+1D583", "U+1D584", "U+1D585",
    "U+1D586", "U+1D587", "U+1D588", "U+1D589", "U+1D58A", "U+1D58B", "U+1D58C", "U+1D58D",
    "U+1D58E", "U+1D58F", "U+1D590", "U+1D591", "U+1D592", "U+1D593", "U+1D594", "U+1D595",
    "U+1D596", "U+1D597", "U+1D598", "U+1D599", "U+1D59A", "U+1D59B", "U+1D59C", "U+1D59D",
    "U+1D59E", "U+1D59F", "U+1D5A0", "U+1D5A1", "U+1D5A2", "U+1D5A3", "U+1D5A4", "U+1D5A5",
    "U+1D5A6", "U+1D5A7", "U+1D5A8", "U+1D5A9", "U+1D5AA", "U+1D5AB", "U+1D5AC", "U+1D5AD",
    "U+1D5AE", "U+1D5AF", "U+1D5B0", "U+1D5B1", "U+1D5B2", "U+1D5B3", "U+1D5B4", "U+1D5B5",
    "U+1D5B6", "U+1D5B7", "U+1D5B8", "U+1D5B9", "U+1D5BA", "U+1D5BB", "U+1D5BC", "U+1D5BD",
    "U+1D5BE", "U+1D5BF", "U+1D5C0", "U+1D5C1", "U+1D5C2", "U+1D5C3", "U+1D5C4", "U+1D5C5",
    "U+1D5C6", "U+1D5C7", "U+1D5C8", "U+1D5C9", "U+1D5CA", "U+1D5CB", "U+1D5CC", "U+1D5CD",
    "U+1D5CE", "U+1D5CF", "U+1D5D0", "U+1D5D1", "U+1D5D2", "U+1D5D3", "U+1D5D4", "U+1D5D5",
    "U+1D5D6", "U+1D5D7", "U+1D5D8", "U+1D5D9", "U+1D5DA", "U+1D5DB", "U+1D5DC", "U+1D5DD",
    "U+1D5DE", "U+1D5DF", "U+1D5E0", "U+1D5E1", "U+1D5E2", "U+1D5E3", "U+1D5E4", "U+1D5E5",
    "U+1D5E6", "U+1D5E7", "U+1D5E8", "U+1D5E9", "U+1D5EA", "U+1D5EB", "U+1D5EC", "U+1D5ED",
    "U+1D5EE", "U+1D5EF", "U+1D5F0", "U+1D5F1", "U+1D5F2", "U+1D5F3", "U+1D5F4", "U+1D5F5",
    "U+1D5F6", "U+1D5F7", "U+1D5F8", "U+1D5F9", "U+1D5FA", "U+1D5FB", "U+1D5FC", "U+1D5FD",
    "U+1D5FE", "U+1D5FF", "U+1D600", "U+1D601", "U+1D602", "U+1D603", "U+1D604", "U+1D605",
    "U+1D606", "U+1D607", "U+1D608", "U+1D609", "U+1D60A", "U+1D60B", "U+1D60C", "U+1D60D",
    "U+1D60E", "U+1D60F", "U+1D610", "U+1D611", "U+1D612", "U+1D613", "U+1D614", "U+1D615",
    "U+1D616", "U+1D617", "U+1D618", "U+1D619", "U+1D61A", "U+1D61B", "U+1D61C", "U+1D61D",
    "U+1D61E", "U+1D61F", "U+1D620", "U+1D621", "U+1D622", "U+1D623", "U+1D624", "U+1D625",
    "U+1D626", "U+1D627", "U+1D628", "U+1D629", "U+1D62A", "U+1D62B", "U+1D62C", "U+1D62D",
    "U+1D62E", "U+1D62F", "U+1D630", "U+1D631", "U+1D632", "U+1D633", "U+1D634", "U+1D635",
    "U+1D636", "U+1D637", "U+1D638", "U+1D639", "U+1D63A", "U+1D63B", "U+1D63C", "U+1D63D",
    "U+1D63E", "U+1D63F", "U+1D640", "U+1D641", "U+1D642", "U+1D643", "U+1D644", "U+1D645",
    "U+1D646", "U+1D647", "U+1D648", "U+1D649", "U+1D64A", "U+1D64B", "U+1D64C", "U+1D64D",
    "U+1D64E", "U+1D64F", "U+1D650", "U+1D651", "U+1D652", "U+1D653", "U+1D654", "U+1D655",
    "U+1D656", "U+1D657", "U+1D658", "U+1D659", "U+1D65A", "U+1D65B", "U+1D65C", "U+1D65D",
    "U+1D65E", "U+1D65F", "U+1D660", "U+1D661", "U+1D662", "U+1D663", "U+1D664", "U+1D665",
    "U+1D666", "U+1D667", "U+1D668", "U+1D669", "U+1D66A", "U+1D66B", "U+1D66C", "U+1D66D",
    "U+1D66E", "U+1D66F", "U+1D670", "U+1D671", "U+1D672", "U+1D673", "U+1D674", "U+1D675",
    "U+1D676", "U+1D677", "U+1D678", "U+1D679", "U+1D67A", "U+1D67B", "U+1D67C", "U+1D67D",
    "U+1D67E", "U+1D67F", "U+1D680", "U+1D681", "U+1D682", "U+1D683", "U+1D684", "U+1D685",
    "U+1D686", "U+1D687", "U+1D688", "U+1D689", "U+1D68A", "U+1D68B", "U+1D68C", "U+1D68D",
    "U+1D68E", "U+1D68F", "U+1D690", "U+1D691", "U+1D692", "U+1D693", "U+1D694", "U+1D695",
    "U+1D696", "U+1D697", "U+1D698", "U+1D699", "U+1D69A", "U+1D69B", "U+1D69C", "U+1D69D",
    "U+1D69E", "U+1D69F", "U+1D6A0", "U+1D6A1", "U+1D6A2", "U+1D6A3", "U+1D6A4", "U+1D6A5",
    "U+1D6A8", "U+1D6A9", "U+1D6AA", "U+1D6AB", "U+1D6AC", "U+1D6AD", "U+1D6AE", "U+1D6AF",
    "U+1D6B0", "U+1D6B1", "U+1D6B2", "U+1D6B3", "U+1D6B4", "U+1D6B5", "U+1D6B6", "U+1D6B7",
    "U+1D6B8", "U+1D6B9", "U+1D6BA", "U+1D6BB", "U+1D6BC", "U+1D6BD", "U+1D6BE", "U+1D6BF",
    "U+1D6C0", "U+1D6C2", "U+1D6C3", "U+1D6C4", "U+1D6C5", "U+1D6C6", "U+1D6C7", "U+1D6C8",
    "U+1D6C9", "U+1D6CA", "U+1D6CB", "U+1D6CC", "U+1D6CD", "U+1D6CE", "U+1D6CF", "U+1D6D0",
    "U+1D6D1", "U+1D6D2", "U+1D6D3", "U+1D6D4", "U+1D6D5", "U+1D6D6", "U+1D6D7", "U+1D6D8",
    "U+1D6D9", "U+1D6DA", "U+1D6DC", "U+1D6DD", "U+1D6DE", "U+1D6DF", "U+1D6E0", "U+1D6E1",
    "U+1D6E2", "U+1D6E3", "U+1D6E4", "U+1D6E5", "U+1D6E6", "U+1D6E7", "U+1D6E8", "U+1D6E9",
    "U+1D6EA", "U+1D6EB", "U+1D6EC", "U+1D6ED", "U+1D6EE", "U+1D6EF", "U+1D6F0", "U+1D6F1",
    "U+1D6F2", "U+1D6F3", "U+1D6F4", "U+1D6F5", "U+1D6F6", "U+1D6F7", "U+1D6F8", "U+1D6F9",
    "U+1D6FA", "U+1D6FC", "U+1D6FD", "U+1D6FE", "U+1D6FF", "U+1D700", "U+1D701", "U+1D702",
    "U+1D703", "U+1D704", "U+1D705", "U+1D706", "U+1D707", "U+1D708", "U+1D709", "U+1D70A",
    "U+1D70B", "U+1D70C", "U+1D70D", "U+1D70E", "U+1D70F", "U+1D710", "U+1D711", "U+1D712",
    "U+1D713", "U+1D714", "U+1D716", "U+1D717", "U+1D718", "U+1D719", "U+1D71A", "U+1D71B",
    "U+1D71C", "U+1D71D", "U+1D71E", "U+1D71F", "U+1D720", "U+1D721", "U+1D722", "U+1D723",
    "U+1D724", "U+1D725", "U+1D726", "U+1D727", "U+1D728", "U+1D729", "U+1D72A", "U+1D72B",
    "U+1D72C", "U+1D72D", "U+1D72E", "U+1D72F", "U+1D730", "U+1D731", "U+1D732", "U+1D733",
    "U+1D734", "U+1D736", "U+1D737", "U+1D738", "U+1D739", "U+1D73A", "U+1D73B", "U+1D73C",
    "U+1D73D", "U+1D73E", "U+1D73F", "U+1D740", "U+1D741", "U+1D742", "U+1D743", "U+1D744",
    "U+1D745", "U+1D746", "U+1D747", "U+1D748", "U+1D749", "U+1D74A", "U+1D74B", "U+1D74C",
    "U+1D74D", "U+1D74E", "U+1D750", "U+1D751", "U+1D752", "U+1D753", "U+1D754", "U+1D755",
    "U+1D756", "U+1D757", "U+1D758", "U+1D759", "U+1D75A", "U+1D75B", "U+1D75C", "U+1D75D",
    "U+1D75E", "U+1D75F", "U+1D760", "U+1D761", "U+1D762", "U+1D763", "U+1D764", "U+1D765",
    "U+1D766", "U+1D767", "U+1D768", "U+1D769", "U+1D76A", "U+1D76B", "U+1D76C", "U+1D76D",
    "U+1D76E", "U+1D770", "U+1D771", "U+1D772", "U+1D773", "U+1D774", "U+1D775", "U+1D776",
    "U+1D777", "U+1D778", "U+1D779", "U+1D77A", "U+1D77B", "U+1D77C", "U+1D77D", "U+1D77E",
    "U+1D77F", "U+1D780", "U+1D781", "U+1D782", "U+1D783", "U+1D784", "U+1D785", "U+1D786",
    "U+1D787", "U+1D788", "U+1D78A", "U+1D78B", "U+1D78C", "U+1D78D", "U+1D78E", "U+1D78F",
    "U+1D790", "U+1D791", "U+1D792", "U+1D793", "U+1D794", "U+1D795", "U+1D796", "U+1D797",
    "U+1D798", "U+1D799", "U+1D79A", "U+1D79B", "U+1D79C", "U+1D79D", "U+1D79E", "U+1D79F",
    "U+1D7A0", "U+1D7A1", "U+1D7A2", "U+1D7A3", "U+1D7A4", "U+1D7A5", "U+1D7A6", "U+1D7A7",
    "U+1D7A8", "U+1D7AA", "U+1D7AB", "U+1D7AC", "U+1D7AD", "U+1D7AE", "U+1D7AF", "U+1D7B0",
    "U+1D7B1", "U+1D7B2", "U+1D7B3", "U+1D7B4", "U+1D7B5", "U+1D7B6", "U+1D7B7", "U+1D7B8",
    "U+1D7B9", "U+1D7BA", "U+1D7BB", "U+1D7BC", "U+1D7BD", "U+1D7BE", "U+1D7BF", "U+1D7C0",
    "U+1D7C1", "U+1D7C2", "U+1D7C4", "U+1D7C5", "U+1D7C6", "U+1D7C7", "U+1D7C8", "U+1D7C9",
    "U+1D7CA", "U+1D7CB", "U+1DF00", "U+1DF01", "U+1DF02", "U+1DF03", "U+1DF04", "U+1DF05",
    "U+1DF06", "U+1DF07", "U+1DF08", "U+1DF09", "U+1DF0B", "U+1DF0C", "U+1DF0D", "U+1DF0E",
    "U+1DF0F", "U+1DF10", "U+1DF11", "U+1DF12", "U+1DF13", "U+1DF14", "U+1DF15", "U+1DF16",
    "U+1DF17", "U+1DF18", "U+1DF19", "U+1DF1A", "U+1DF1B", "U+1DF1C", "U+1DF1D", "U+1DF1E",
    "U+1E900", "U+1E901", "U+1E902", "U+1E903", "U+1E904", "U+1E905", "U+1E906", "U+1E907",
    "U+1E908", "U+1E909", "U+1E90A", "U+1E90B", "U+1E90C", "U+1E90D", "U+1E90E", "U+1E90F",
    "U+1E910", "U+1E911", "U+1E912", "U+1E913", "U+1E914", "U+1E915", "U+1E916", "U+1E917",
    "U+1E918", "U+1E919", "U+1E91A", "U+1E91B", "U+1E91C", "U+1E91D", "U+1E91E", "U+1E91F",
    "U+1E920", "U+1E921", "U+1E922", "U+1E923", "U+1E924", "U+1E925", "U+1E926", "U+1E927",
    "U+1E928", "U+1E929", "U+1E92A", "U+1E92B", "U+1E92C", "U+1E92D", "U+1E92E", "U+1E92F",
    "U+1E930", "U+1E931", "U+1E932", "U+1E933", "U+1E934", "U+1E935", "U+1E936", "U+1E937",
    "U+1E938", "U+1E939", "U+1E93A", "U+1E93B", "U+1E93C", "U+1E93D", "U+1E93E", "U+1E93F",
    "U+1E940", "U+1E941", "U+1E942", "U+1E943", "U+1F130", "U+1F131", "U+1F132", "U+1F133",
    "U+1F134", "U+1F135", "U+1F136", "U+1F137", "U+1F138", "U+1F139", "U+1F13A", "U+1F13B",
    "U+1F13C", "U+1F13D", "U+1F13E", "U+1F13F", "U+1F140", "U+1F141", "U+1F142", "U+1F143",
    "U+1F144", "U+1F145", "U+1F146", "U+1F147", "U+1F148", "U+1F149", "U+1F150", "U+1F151",
    "U+1F152", "U+1F153", "U+1F154", "U+1F155", "U+1F156", "U+1F157", "U+1F158", "U+1F159",
    "U+1F15A", "U+1F15B", "U+1F15C", "U+1F15D", "U+1F15E", "U+1F15F", "U+1F160", "U+1F161",
    "U+1F162", "U+1F163", "U+1F164", "U+1F165", "U+1F166", "U+1F167", "U+1F168", "U+1F169",
    "U+1F170", "U+1F171", "U+1F172", "U+1F173", "U+1F174", "U+1F175", "U+1F176", "U+1F177",
    "U+1F178", "U+1F179", "U+1F17A", "U+1F17B", "U+1F17C", "U+1F17D", "U+1F17E", "U+1F17F",
    "U+1F180", "U+1F181", "U+1F182", "U+1F183", "U+1F184", "U+1F185", "U+1F186", "U+1F187",
    "U+1F188", "U+1F189" }

\* the case-ignorable characters, which that test skips
CaseIgnorable == {
    "'", ".", ":", "^", "U+0060", "U+00A8", "U+00AD", "U+00AF", "U+00B4", "U+00B7", "U+00B8",
    "U+02B0", "U+02B1", "U+02B2", "U+02B3", "U+02B4", "U+02B5", "U+02B6", "U+02B7", "U+02B8",
    "U+02B9", "U+02BA", "U+02BB", "U+02BC", "U+02BD", "U+02BE", "U+02BF", "U+02C0", "U+02C1",
    "U+02C2", "U+02C3", "U+02C4", "U+02C5", "U+02C6", "U+02C7", "U+02C8", "U+02C9", "U+02CA",
    "U+02CB", "U+02CC", "U+02CD", "U+02CE", "U+02CF", "U+02D0", "U+02D1", "U+02D2", "U+02D3",
    "U+02D4", "U+02D5", "U+02D6", "U+02D7", "U+02D8", "U+02D9", "U+02DA", "U+02DB", "U+02DC",
    "U+02DD", "U+02DE", "U+02DF", "U+02E0", "U+02E1", "U+02E2", "U+02E3", "U+02E4", "U+02E5",
    "U+02E6", "U+02E7", "U+02E8", "U+02E9", "U+02EA", "U+02EB", "U+02EC", "U+02ED", "U+02EE",
    "U+02EF", "U+02F0", "U+02F1", "U+02F2", "U+02F3", "U+02F4", "U+02F5", "U+02F6", "U+02F7",
    "U+02F8", "U+02F9", "U+02FA", "U+02FB", "U+02FC", "U+02FD", "U+02FE", "U+02FF", "U+0300",
    "U+0301", "U+0302", "U+0303", "U+0304", "U+0305", "U+0306", "U+0307", "U+0308", "U+0309",
    "U+030A", "U+030B", "U+030C", "U+030D", "U+030E", "U+030F", "U+0310", "U+0311", "U+0312",
    "U+0313", "U+0314", "U+0315", "U+0316", "U+0317", "U+0318", "U+0319", "U+031A", "U+031B",
    "U+031C", "U+031D", "U+031E", "U+031F", "U+0320", "U+0321", "U+0322", "U+0323", "U+0324",
    "U+0325", "U+0326", "U+0327", "U+0328", "U+0329", "U+032A", "U+032B", "U+032C", "U+032D",
    "U+032E", "U+032F", "U+0330", "U+0331", "U+0332", "U+0333", "U+0334", "U+0335", "U+0336",
    "U+0337", "U+0338", "U+0339", "U+033A", "U+033B", "U+033C", "U+033D", "U+033E", "U+033F",
    "U+0340", "U+0341", "U+0342", "U+0343", "U+0344", "U+0345", "U+0346", "U+0347", "U+0348",
    "U+0349", "U+034A", "U+034B", "U+034C", "U+034D", "U+034E", "U+034F", "U+0350", "U+0351",
    "U+0352", "U+0353", "U+0354", "U+0355", "U+0356", "U+0357", "U+0358", "U+0359", "U+035A",
    "U+035B", "U+035C", "U+035D", "U+035E", "U+035F", "U+0360", "U+0361", "U+0362", "U+0363",
    "U+0364", "U+0365", "U+0366", "U+0367", "U+0368", "U+0369", "U+036A", "U+036B", "U+036C",
    "U+036D", "U+036E", "U+036F", "U+0374", "U+0375", "U+037A", "U+0384", "U+0385", "U+0387",
    "U+0483", "U+0484", "U+0485", "U+0486", "U+0487", "U+0488", "U+0489", "U+0559", "U+055F",
    "U+0591", "U+0592", "U+0593", "U+0594", "U+0595", "U+0596", "U+0597", "U+0598", "U+0599",
    "U+059A", "U+059B", "U+059C", "U+059D", "U+059E", "U+059F", "U+05A0", "U+05A1", "U+05A2",
    "U+05A3", "U+05A4", "U+05A5", "U+05A6", "U+05A7", "U+05A8", "U+05A9", "U+05AA", "U+05AB",
    "U+05AC", "U+05AD", "U+05AE", "U+05AF", "U+05B0", "U+05B1", "U+05B2", "U+05B3", "U+05B4",
    "U+05B5", "U+05B6", "U+05B7", "U+05B8", "U+05B9", "U+05BA", "U+05BB", "U+05BC", "U+05BD",
    "U+05BF", "U+05C1", "U+05C2", "U+05C4", "U+05C5", "U+05C7", "U+05F4", "U+0600", "U+0601",
    "U+0602", "U+0603", "U+0604", "U+0605", "U+0610", "U+0611", "U+0612", "U+0613", "U+0614",
    "U+0615", "U+0616", "U+0617", "U+0618", "U+0619", "U+061A", "U+061C", "U+0640", "U+064B",
    "U+064C", "U+064D", "U+064E", "U+064F", "U+0650", "U+0651", "U+0652", "U+0653", "U+0654",
    "U+0655", "U+0656", "U+0657", "U+0658", "U+0659", "U+065A", "U+065B", "U+065C", "U+065D",
    "U+065E", "U+065F", "U+0670", "U+06D6", "U+06D7", "U+06D8", "U+06D9", "U+06DA", "U+06DB",
    "U+06DC", "U+06DD", "U+06DF", "U+06E0", "U+06E1", "U+06E2", "U+06E3", "U+06E4", "U+06E5",
    "U+06E6", "U+06E7", "U+06E8", "U+06EA", "U+06EB", "U+06EC", "U+06ED", "U+070F", "U+0711",
    "U+0730", "U+0731", "U+0732", "U+0733", "U+0734", "U+0735", "U+0736", "U+0737", "U+0738",
    "U+0739", "U+073A", "U+073B", "U+073C", "U+073D", "U+073E", "U+073F", "U+0740", "U+0741",
    "U+0742", "U+0743", "U+0744", "U+0745", "U+0746", "U+0747", "U+0748", "U+0749", "U+074A",
    "U+07A6", "U+07A7", "U+07A8", "U+07A9", "U+07AA", "U+07AB", "U+07AC", "U+07AD", "U+07AE",
    "U+07AF", "U+07B0", "U+07EB", "U+07EC", "U+07ED", "U+07EE", "U+07EF", "U+07F0", "U+07F1",
    "U+07F2", "U+07F3", "U+07F4", "U+07F5", "U+07FA", "U+07FD", "U+0816", "U+0817", "U+0818",
    "U+0819", "U+081A", "U+081B", "U+081C", "U+081D", "U+081E", "U+081F", "U+0820", "U+0821",
    "U+0822", "U+0823", "U+0824", "U+0825", "U+0826", "U+0827", "U+0828", "U+0829", "U+082A",
    "U+082B", "U+082C", "U+082D", "U+0859", "U+085A", "U+085B", "U+0888", "U+0890", "U+0891",
    "U+0898", "U+0899", "U+089A", "U+089B", "U+089C", "U+089D", "U+089E", "U+089F", "U+08C9",
    "U+08CA", "U+08CB", "U+08CC", "U+08CD", "U+08CE", "U+08CF", "U+08D0", "U+08D1", "U+08D2",
    "U+08D3", "U+08D4", "U+08D5", "U+08D6", "U+08D7", "U+08D8", "U+08D9", "U+08DA", "U+08DB",
    "U+08DC", "U+08DD", "U+08DE", "U+08DF", "U+08E0", "U+08E1", "U+08E2", "U+08E3", "U+08E4",
    "U+08E5", "U+08E6", "U+08E7", "U+08E8", "U+08E9", "U+08EA", "U+08EB", "U+08EC", "U+08ED",
    "U+08EE", "U+08EF", "U+08F0", "U+08F1", "U+08F2", "U+08F3", "U+08F4", "U+08F5", "U+08F6",
    "U+08F7", "U+08F8", "U+08F9", "U+08FA", "U+08FB", "U+08FC", "U+08FD", "U+08FE", "U+08FF",
    "U+0900", "U+0901", "U+0902", "U+093A", "U+093C", "U+0941", "U+0942", "U+0943", "U+0944",
    "U+0945", "U+0946", "U+0947", "U+0948", "U+094D", "U+0951", "U+0952", "U+0953", "U+0954",
    "U+0955", "U+0956", "U+0957", "U+0962", "U+0963", "U+0971", "U+0981", "U+09BC", "U+09C1",
    "U+09C2", "U+09C3", "U+09C4", "U+09CD", "U+09E2", "U+09E3", "U+09FE", "U+0A01", "U+0A02",
    "U+0A3C", "U+0A41", "U+0A42", "U+0A47", "U+0A48", "U+0A4B", "U+0A4C", "U+0A4D", "U+0A51",
    "U+0A70", "U+0A71", "U+0A75", "U+0A81", "U+0A82", "U+0ABC", "U+0AC1", "U+0AC2", "U+0AC3",
    "U+0AC4", "U+0AC5", "U+0AC7", "U+0AC8", "U+0ACD", "U+0AE2", "U+0AE3", "U+0AFA", "U+0AFB",
    "U+0AFC", "U+0AFD", "U+0AFE", "U+0AFF", "U+0B01", "U+0B3C", "U+0B3F", "U+0B41", "U+0B42",
    "U+0B43", "U+0B44", "U+0B4D", "U+0B55", "U+0B56", "U+0B62", "U+0B63", "U+0B82", "U+0BC0",
    "U+0BCD", "U+0C00", "U+0C04", "U+0C3C", "U+0C3E", "U+0C3F", "U+0C40", "U+0C46", "U+0C47",
    "U+0C48", "U+0C4A", "U+0C4B", "U+0C4C", "U+0C4D", "U+0C55", "U+0C56", "U+0C62", "U+0C63",
    "U+0C81", "U+0CBC", "U+0CBF", "U+0CC6", "U+0CCC", "U+0CCD", "U+0CE2", "U+0CE3", "U+0D00",
    "U+0D01", "U+0D3B", "U+0D3C", "U+0D41", "U+0D42", "U+0D43", "U+0D44", "U+0D4D", "U+0D62",
    "U+0D63", "U+0D81", "U+0DCA", "U+0DD2", "U+0DD3", "U+0DD4", "U+0DD6", "U+0E31", "U+0E34",
    "U+0E35", "U+0E36", "U+0E37", "U+0E38", "U+0E39", "U+0E3A", "U+0E46", "U+0E47", "U+0E48",
    "U+0E49", "U+0E4A", "U+0E4B", "U+0E4C", "U+0E4D", "U+0E4E", "U+0EB1", "U+0EB4", "U+0EB5",
    "U+0EB6", "U+0EB7", "U+0EB8", "U+0EB9", "U+0EBA", "U+0EBB", "U+0EBC", "U+0EC6", "U+0EC8",
    "U+0EC9", "U+0ECA", "U+0ECB", "U+0ECC", "U+0ECD", "U+0F18", "U+0F19", "U+0F35", "U+0F37",
    "U+0F39", "U+0F71", "U+0F72", "U+0F73", "U+0F74", "U+0F75", "U+0F76", "U+0F77", "U+0F78",
    "U+0F79", "U+0F7A", "U+0F7B", "U+0F7C", "U+0F7D", "U+0F7E", "U+0F80", "U+0F81", "U+0F82",
    "U+0F83", "U+0F84", "U+0F86", "U+0F87", "U+0F8D", "U+0F8E", "U+0F8F", "U+0F90", "U+0F91",
    "U+0F92", "U+0F93", "U+0F94", "U+0F95", "U+0F96", "U+0F97", "U+0F99", "U+0F9A", "U+0F9B",
    "U+0F9C", "U+0F9D", "U+0F9E", "U+0F9F", "U+0FA0", "U+0FA1", "U+0FA2", "U+0FA3", "U+0FA4",
    "U+0FA5", "U+0FA6", "U+0FA7", "U+0FA8", "U+0FA9", "U+0FAA", "U+0FAB", "U+0FAC", "U+0FAD",
    "U+0FAE", "U+0FAF", "U+0FB0", "U+0FB1", "U+0FB2", "U+0FB3", "U+0FB4", "U+0FB5", "U+0FB6",
    "U+0FB7", "U+0FB8", "U+0FB9", "U+0FBA", "U+0FBB", "U+0FBC", "U+0FC6", "U+102D", "U+102E",
    "U+102F", "U+1030", "U+1032", "U+1033", "U+1034", "U+1035", "U+1036", "U+1037", "U+1039",
    "U+103A", "U+103D", "U+103E", "U+1058", "U+1059", "U+105E", "U+105F", "U+1060", "U+1071",
    "U+1072", "U+1073", "U+1074", "U+1082", "U+1085", "U+1086", "U+108D", "U+109D", "U+10FC",
    "U+135D", "U+135E", "U+135F", "U+1712", "U+1713", "U+1714", "U+1732", "U+1733", "U+1752",
    "U+1753", "U+1772", "U+1773", "U+17B4", "U+17B5", "U+17B7", "U+17B8", "U+17B9", "U+17BA",
    "U+17BB", "U+17BC", "U+17BD", "U+17C6", "U+17C9", "U+17CA", "U+17CB", "U+17CC", "U+17CD",
    "U+17CE", "U+17CF", "U+17D0", "U+17D1", "U+17D2", "U+17D3", "U+17D7", "U+17DD", "U+180B",
    "U+180C", "U+180D", "U+180E", "U+180F", "U+1843", "U+1885", "U+1886", "U+18A9", "U+1920",
    "U+1921", "U+1922", "U+1927", "U+1928", "U+1932", "U+1939", "U+193A", "U+193B", "U+1A17",
    "U+1A18", "U+1A1B", "U+1A56", "U+1A58", "U+1A59", "U+1A5A", "U+1A5B", "U+1A5C", "U+1A5D",
    "U+1A5E", "U+1A60", "U+1A62", "U+1A65", "U+1A66", "U+1A67", "U+1A68", "U+1A69", "U+1A6A",
    "U+1A6B", "U+1A6C", "U+1A73", "U+1A74", "U+1A75", "U+1A76", "U+1A77", "U+1A78", "U+1A79",
    "U+1A7A", "U+1A7B", "U+1A7C", "U+1A7F", "U+1AA7", "U+1AB0", "U+1AB1", "U+1AB2", "U+1AB3",
    "U+1AB4", "U+1AB5", "U+1AB6", "U+1AB7", "U+1AB8", "U+1AB9", "U+1ABA", "U+1ABB", "U+1ABC",
    "U+1ABD", "U+1ABE", "U+1ABF", "U+1AC0", "U+1AC1", "U+1AC2", "U+1AC3", "U+1AC4", "U+1AC5",
    "U+1AC6", "U+1AC7", "U+1AC8", "U+1AC9", "U+1ACA", "U+1ACB", "U+1ACC", "U+1ACD", "U+1ACE",
    "U+1B00", "U+1B01", "U+1B02", "U+1B03", "U+1B34", "U+1B36", "U+1B37", "U+1B38", "U+1B39",
    "U+1B3A", "U+1B3C", "U+1B42", "U+1B6B", "U+1B6C", "U+1B6D", "U+1B6E", "U+1B6F", "U+1B70",
    "U+1B71", "U+1B72", "U+1B73", "U+1B80", "U+1B81", "U+1BA2", "U+1BA3", "U+1BA4", "U+1BA5",
    "U+1BA8", "U+1BA9", "U+1BAB", "U+1BAC", "U+1BAD", "U+1BE6", "U+1BE8", "U+1BE9", "U+1BED",
    "U+1BEF", "U+1BF0", "U+1BF1", "U+1C2C", "U+1C2D", "U+1C2E", "U+1C2F", "U+1C30", "U+1C31",
    "U+1C32", "U+1C33", "U+1C36", "U+1C37", "U+1C78", "U+1C79", "U+1C7A", "U+1C7B", "U+1C7C",
    "U+1C7D", "U+1CD0", "U+1CD1", "U+1CD2", "U+1CD4", "U+1CD5", "U+1CD6", "U+1CD7", "U+1CD8",
    "U+1CD9", "U+1CDA", "U+1CDB", "U+1CDC", "U+1CDD", "U+1CDE", "U+1CDF", "U+1CE0", "U+1CE2",
    "U+1CE3", "U+1CE4", "U+1CE5", "U+1CE6", "U+1CE7", "U+1CE8", "U+1CED", "U+1CF4", "U+1CF8",
    "U+1CF9", "U+1D2C", "U+1D2D", "U+1D2E", "U+1D2F", "U+1D30", "U+1D31", "U+1D32", "U+1D33",
    "U+1D34", "U+1D35", "U+1D36", "U+1D37", "U+1D38", "U+1D39", "U+1D3A", "U+1D3B", "U+1D3C",
    "U+1D3D", "U+1D3E", "U+1D3F", "U+1D40", "U+1D41", "U+1D42", "U+1D43", "U+1D44", "U+1D45",
    "U+1D46", "U+1D47", "U+1D48", "U+1D49", "U+1D4A", "U+1D4B", "U+1D4C", "U+1D4D", "U+1D4E",
    "U+1D4F", "U+1D50", "U+1D51", "U+1D52", "U+1D53", "U+1D54", "U+1D55", "U+1D56", "U+1D57",
    "U+1D58", "U+1D59", "U+1D5A", "U+1D5B", "U+1D5C", "U+1D5D", "U+1D5E", "U+1D5F", "U+1D60",
    "U+1D61", "U+1D62", "U+1D63", "U+1D64", "U+1D65", "U+1D66", "U+1D67", "U+1D68", "U+1D69",
    "U+1D6A", "U+1D78", "U+1D9B", "U+1D9C", "U+1D9D", "U+1D9E", "U+1D9F", "U+1DA0", "U+1DA1",
    "U+1DA2", "U+1DA3", "U+1DA4", "U+1DA5", "U+1DA6", "U+1DA7", "U+1DA8", "U+1DA9", "U+1DAA",
    "U+1DAB", "U+1DAC", "U+1DAD", "U+1DAE", "U+1DAF", "U+1DB0", "U+1DB1", "U+1DB2", "U+1DB3",
    "U+1DB4", "U+1DB5", "U+1DB6", "U+1DB7", "U+1DB8", "U+1DB9", "U+1DBA", "U+1DBB", "U+1DBC",
    "U+1DBD", "U+1DBE", "U+1DBF", "U+1DC0", "U+1DC1", "U+1DC2", "U+1DC3", "U+1DC4", "U+1DC5",
    "U+1DC6", "U+1DC7", "U+1DC8", "U+1DC9", "U+1DCA", "U+1DCB", "U+1DCC", "U+1DCD", "U+1DCE",
    "U+1DCF", "U+1DD0", "U+1DD1", "U+1DD2", "U+1DD3", "U+1DD4", "U+1DD5", "U+1DD6", "U+1DD7",
    "U+1DD8", "U+1DD9", "U+1DDA", "U+1DDB", "U+1DDC", "U+1DDD", "U+1DDE", "U+1DDF", "U+1DE0",
    "U+1DE1", "U+1DE2", "U+1DE3", "U+1DE4", "U+1DE5", "U+1DE6", "U+1DE7", "U+1DE8", "U+1DE9",
    "U+1DEA", "U+1DEB", "U+1DEC", "U+1DED", "U+1DEE", "U+1DEF", "U+1DF0", "U+1DF1", "U+1DF2",
    "U+1DF3", "U+1DF4", "U+1DF5", "U+1DF6", "U+1DF7", "U+1DF8", "U+1DF9", "U+1DFA", "U+1DFB",
    "U+1DFC", "U+1DFD", "U+1DFE", "U+1DFF", "U+1FBD", "U+1FBF", "U+1FC0", "U+1FC1", "U+1FCD",
    "U+1FCE", "U+1FCF", "U+1FDD", "U+1FDE", "U+1FDF", "U+1FED", "U+1FEE", "U+1FEF", "U+1FFD",
    "U+1FFE", "U+200B", "U+200C", "U+200D", "U+200E", "U+200F", "U+2018", "U+2019", "U+2024",
    "U+2027", "U+202A", "U+202B", "U+202C", "U+202D", "U+202E", "U+2060", "U+2061", "U+2062",
    "U+2063", "U+2064", "U+2066", "U+2067", "U+2068", "U+2069", "U+206A", "U+206B", "U+206C",
    "U+206D", "U+206E", "U+206F", "U+2071", "U+207F", "U+2090", "U+2091", "U+2092", "U+2093",
    "U+2094", "U+2095", "U+2096", "U+2097", "U+2098", "U+2099", "U+209A", "U+209B", "U+209C",
    "U+20D0", "U+20D1", "U+20D2", "U+20D3", "U+20D4", "U+20D5", "U+20D6", "U+20D7", "U+20D8",
    "U+20D9", "U+20DA", "U+20DB", "U+20DC", "U+20DD", "U+20DE", "U+20DF", "U+20E0", "U+20E1",
    "U+20E2", "U+20E3", "U+20E4", "U+20E5", "U+20E6", "U+20E7", "U+20E8", "U+20E9", "U+20EA",
    "U+20EB", "U+20EC", "U+20ED", "U+20EE", "U+20EF", "U+20F0", "U+2C7C", "U+2C7D", "U+2CEF",
    "U+2CF0", "U+2CF1", "U+2D6F", "U+2D7F", "U+2DE0", "U+2DE1", "U+2DE2", "U+2DE3", "U+2DE4",
    "U+2DE5", "U+2DE6", "U+2DE7", "U+2DE8", "U+2DE9", "U+2DEA", "U+2DEB", "U+2DEC", "U+2DED",
    "U+2DEE", "U+2DEF", "U+2DF0", "U+2DF1", "U+2DF2", "U+2DF3", "U+2DF4", "U+2DF5", "U+2DF6",
    "U+2DF7", "U+2DF8", "U+2DF9", "U+2DFA", "U+2DFB", "U+2DFC", "U+2DFD", "U+2DFE", "U+2DFF",
    "U+2E2F", "U+3005", "U+302A", "U+302B", "U+302C", "U+302D", "U+3031", "U+3032", "U+3033",
    "U+3034", "U+3035", "U+303B", "U+3099", "U+309A", "U+309B", "U+309C", "U+309D", "U+309E",
    "U+30FC", "U+30FD", "U+30FE", "U+A015", "U+A4F8", "U+A4F9", "U+A4FA", "U+A4FB", "U+A4FC",
    "U+A4FD", "U+A60C", "U+A66F", "U+A670", "U+A671", "U+A672", "U+A674", "U+A675", "U+A676",
    "U+A677", "U+A678", "U+A679", "U+A67A", "U+A67B", "U+A67C", "U+A67D", "U+A67F", "U+A69C",
    "U+A69D", "U+A69E", "U+A69F", "U+A6F0", "U+A6F1", "U+A700", "U+A701", "U+A702", "U+A703",
    "U+A704", "U+A705", "U+A706", "U+A707", "U+A708", "U+A709", "U+A70A", "U+A70B", "U+A70C",
    "U+A70D", "U+A70E", "U+A70F", "U+A710", "U+A711", "U+A712", "U+A713", "U+A714", "U+A715",
    "U+A716", "U+A717", "U+A718", "U+A719", "U+A71A", "U+A71B", "U+A71C", "U+A71D", "U+A71E",
    "U+A71F", "U+A720", "U+A721", "U+A770", "U+A788", "U+A789", "U+A78A", "U+A7F2", "U+A7F3",
    "U+A7F4", "U+A7F8", "U+A7F9", "U+A802", "U+A806", "U+A80B", "U+A825", "U+A826", "U+A82C",
    "U+A8C4", "U+A8C5", "U+A8E0", "U+A8E1", "U+A8E2", "U+A8E3", "U+A8E4", "U+A8E5", "U+A8E6",
    "U+A8E7", "U+A8E8", "U+A8E9", "U+A8EA", "U+A8EB", "U+A8EC", "U+A8ED", "U+A8EE", "U+A8EF",
    "U+A8F0", "U+A8F1", "U+A8FF", "U+A926", "U+A927", "U+A928", "U+A929", "U+A92A", "U+A92B",
    "U+A92C", "U+A92D", "U+A947", "U+A948", "U+A949", "U+A94A", "U+A94B", "U+A94C", "U+A94D",
    "U+A94E", "U+A94F", "U+A950", "U+A951", "U+A980", "U+A981", "U+A982", "U+A9B3", "U+A9B6",
    "U+A9B7", "U+A9B8", "U+A9B9", "U+A9BC", "U+A9BD", "U+A9CF", "U+A9E5", "U+A9E6", "U+AA29",
    "U+AA2A", "U+AA2B", "U+AA2C", "U+AA2D", "U+AA2E", "U+AA31", "U+AA32", "U+AA35", "U+AA36",
    "U+AA43", "U+AA4C", "U+AA70", "U+AA7C", "U+AAB0", "U+AAB2", "U+AAB3", "U+AAB4", "U+AAB7",
    "U+AAB8", "U+AABE", "U+AABF", "U+AAC1", "U+AADD", "U+AAEC", "U+AAED", "U+AAF3", "U+AAF4",
    "U+AAF6", "U+AB5B", "U+AB5C", "U+AB5D", "U+AB5E", "U+AB5F", "U+AB69", "U+AB6A", "U+AB6B",
    "U+ABE5", "U+ABE8", "U+ABED", "U+FB1E", "U+FBB2", "U+FBB3", "U+FBB4", "U+FBB5", "U+FBB6",
    "U+FBB7", "U+FBB8", "U+FBB9", "U+FBBA", "U+FBBB", "U+FBBC", "U+FBBD", "U+FBBE", "U+FBBF",
    "U+FBC0", "U+FBC1", "U+FBC2", "U+FE00", "U+FE01", "U+FE02", "U+FE03", "U+FE04", "U+FE05",
    "U+FE06", "U+FE07", "U+FE08", "U+FE09", "U+FE0A", "U+FE0B", "U+FE0C", "U+FE0D", "U+FE0E",
    "U+FE0F", "U+FE13", "U+FE20", "U+FE21", "U+FE22", "U+FE23", "U+FE24", "U+FE25", "U+FE26",
    "U+FE27", "U+FE28", "U+FE29", "U+FE2A", "U+FE2B", "U+FE2C", "U+FE2D", "U+FE2E", "U+FE2F",
    "U+FE52", "U+FE55", "U+FEFF", "U+FF07", "U+FF0E", "U+FF1A", "U+FF3E", "U+FF40", "U+FF70",
    "U+FF9E", "U+FF9F", "U+FFE3", "U+FFF9", "U+FFFA", "U+FFFB", "U+101FD", "U+102E0", "U+10376",
    "U+10377", "U+10378", "U+10379", "U+1037A", "U+10780", "U+10781", "U+10782", "U+10783",
    "U+10784", "U+10785", "U+10787", "U+10788", "U+10789", "U+1078A", "U+1078B", "U+1078C",
    "U+1078D", "U+1078E", "U+1078F", "U+10790", "U+10791", "U+10792", "U+10793", "U+10794",
    "U+10795", "U+10796", "U+10797", "U+10798", "U+10799", "U+1079A", "U+1079B", "U+1079C",
    "U+1079D", "U+1079E", "U+1079F", "U+107A0", "U+107A1", "U+107A2", "U+107A3", "U+107A4",
    "U+107A5", "U+107A6", "U+107A7", "U+107A8", "U+107A9", "U+107AA", "U+107AB", "U+107AC",
    "U+107AD", "U+107AE", "U+107AF", "U+107B0", "U+107B2", "U+107B3", "U+107B4", "U+107B5",
    "U+107B6", "U+107B7", "U+107B8", "U+107B9", "U+107BA", "U+10A01", "U+10A02", "U+10A03",
    "U+10A05", "U+10A06", "U+10A0C", "U+10A0D", "U+10A0E", "U+10A0F", "U+10A38", "U+10A39",
    "U+10A3A", "U+10A3F", "U+10AE5", "U+10AE6", "U+10D24", "U+10D25", "U+10D26", "U+10D27",
    "U+10EAB", "U+10EAC", "U+10F46", "U+10F47", "U+10F48", "U+10F49", "U+10F4A", "U+10F4B",
    "U+10F4C", "U+10F4D", "U+10F4E", "U+10F4F", "U+10F50", "U+10F82", "U+10F83", "U+10F84",
    "U+10F85", "U+11001", "U+11038", "U+11039", "U+1103A", "U+1103B", "U+1103C", "U+1103D",
    "U+1103E", "U+1103F", "U+11040", "U+11041", "U+11042", "U+11043", "U+11044", "U+11045",
    "U+11046", "U+11070", "U+11073", "U+11074", "U+1107F", "U+11080", "U+11081", "U+110B3",
    "U+110B4", "U+110B5", "U+110B6", "U+110B9", "U+110BA", "U+110BD", "U+110C2", "U+110CD",
    "U+11100", "U+11101", "U+11102", "U+11127", "U+11128", "U+11129", "U+1112A", "U+1112B",
    "U+1112D", "U+1112E", "U+1112F", "U+11130", "U+11131", "U+11132", "U+11133", "U+11134",
    "U+11173", "U+11180", "U+11181", "U+111B6", "U+111B7", "U+111B8", "U+111B9", "U+111BA",
    "U+111BB", "U+111BC", "U+111BD", "U+111BE", "U+111C9", "U+111CA", "U+111CB", "U+111CC",
    "U+111CF", "U+1122F", "U+11230", "U+11231", "U+11234", "U+11236", "U+11237", "U+1123E",
    "U+112DF", "U+112E3", "U+112E4", "U+112E5", "U+112E6", "U+112E7", "U+112E8", "U+112E9",
    "U+112EA", "U+11300", "U+11301", "U+1133B", "U+1133C", "U+11340", "U+11366", "U+11367",
    "U+11368", "U+11369", "U+1136A", "U+1136B", "U+1136C", "U+11370", "U+11371", "U+11372",
    "U+11373", "U+11374", "U+11438", "U+11439", "U+1143A", "U+1143B", "U+1143C", "U+1143D",
    "U+1143E", "U+1143F", "U+11442", "U+11443", "U+11444", "U+11446", "U+1145E", "U+114B3",
    "U+114B4", "U+114B5", "U+114B6", "U+114B7", "U+114B8", "U+114BA", "U+114BF", "U+114C0",
    "U+114C2", "U+114C3", "U+115B2", "U+115B3", "U+115B4", "U+115B5", "U+115BC", "U+115BD",
    "U+115BF", "U+115C0", "U+115DC", "U+115DD", "U+11633", "U+11634", "U+11635", "U+11636",
    "U+11637", "U+11638", "U+11639", "U+1163A", "U+1163D", "U+1163F", "U+11640", "U+116AB",
    "U+116AD", "U+116B0", "U+116B1", "U+116B2", "U+116B3", "U+116B4", "U+116B5", "U+116B7",
    "U+1171D", "U+1171E", "U+1171F", "U+11722", "U+11723", "U+11724", "U+11725", "U+11727",
    "U+11728", "U+11729", "U+1172A", "U+1172B", "U+1182F", "U+11830", "U+11831", "U+11832",
    "U+11833", "U+11834", "U+11835", "U+11836", "U+11837", "U+11839", "U+1183A", "U+1193B",
    "U+1193C", "U+1193E", "U+11943", "U+119D4", "U+119D5", "U+119D6", "U+119D7", "U+119DA",
    "U+119DB", "U+119E0", "U+11A01", "U+11A02", "U+11A03", "U+11A04", "U+11A05", "U+11A06",
    "U+11A07", "U+11A08", "U+11A09", "U+11A0A", "U+11A33", "U+11A34", "U+11A35", "U+11A36",
    "U+11A37", "U+11A38", "U+11A3B", "U+11A3C", "U+11A3D", "U+11A3E", "U+11A47", "U+11A51",
    "U+11A52", "U+11A53", "U+11A54", "U+11A55", "U+11A56", "U+11A59", "U+11A5A", "U+11A5B",
    "U+11A8A", "U+11A8B", "U+11A8C", "U+11A8D", "U+11A8E", "U+11A8F", "U+11A90", "U+11A91",
    "U+11A92", "U+11A93", "U+11A94", "U+11A95", "U+11A96", "U+11A98", "U+11A99", "U+11C30",
    "U+11C31", "U+11C32", "U+11C33", "U+11C34", "U+11C35", "U+11C36", "U+11C38", "U+11C39",
    "U+11C3A", "U+11C3B", "U+11C3C", "U+11C3D", "U+11C3F", "U+11C92", "U+11C93", "U+11C94",
    "U+11C95", "U+11C96", "U+11C97", "U+11C98", "U+11C99", "U+11C9A", "U+11C9B", "U+11C9C",
    "U+11C9D", "U+11C9E", "U+11C9F", "U+11CA0", "U+11CA1", "U+11CA2", "U+11CA3", "U+11CA4",
    "U+11CA5", "U+11CA6", "U+11CA7", "U+11CAA", "U+11CAB", "U+11CAC", "U+11CAD", "U+11CAE",
    "U+11CAF", "U+11CB0", "U+11CB2", "U+11CB3", "U+11CB5", "U+11CB6", "U+11D31", "U+11D32",
    "U+11D33", "U+11D34", "U+11D35", "U+11D36", "U+11D3A", "U+11D3C", "U+11D3D", "U+11D3F",
    "U+11D40", "U+11D41", "U+11D42", "U+11D43", "U+11D44", "U+11D45", "U+11D47", "U+11D90",
    "U+11D91", "U+11D95", "U+11D97", "U+11EF3", "U+11EF4", "U+13430", "U+13431", "U+13432",
    "U+13433", "U+13434", "U+13435", "U+13436", "U+13437", "U+13438", "U+16AF0", "U+16AF1",
    "U+16AF2", "U+16AF3", "U+16AF4", "U+16B30", "U+16B31", "U+16B32", "U+16B33", "U+16B34",
    "U+16B35", "U+16B36", "U+16B40", "U+16B41", "U+16B42", "U+16B43", "U+16F4F", "U+16F8F",
    "U+16F90", "U+16F91", "U+16F92", "U+16F93", "U+16F94", "U+16F95", "U+16F96", "U+16F97",
    "U+16F98", "U+16F99", "U+16F9A", "U+16F9B", "U+16F9C", "U+16F9D", "U+16F9E", "U+16F9F",
    "U+16FE0", "U+16FE1", "U+16FE3", "U+16FE4", "U+1AFF0", "U+1AFF1", "U+1AFF2", "U+1AFF3",
    "U+1AFF5", "U+1AFF6", "U+1AFF7", "U+1AFF8", "U+1AFF9", "U+1AFFA", "U+1AFFB", "U+1AFFD",
    "U+1AFFE", "U+1BC9D", "U+1BC9E", "U+1BCA0", "U+1BCA1", "U+1BCA2", "U+1BCA3", "U+1CF00",
    "U+1CF01", "U+1CF02", "U+1CF03", "U+1CF04", "U+1CF05", "U+1CF06", "U+1CF07", "U+1CF08",
    "U+1CF09", "U+1CF0A", "U+1CF0B", "U+1CF0C", "U+1CF0D", "U+1CF0E", "U+1CF0F", "U+1CF10",
    "U+1CF11", "U+1CF12", "U+1CF13", "U+1CF14", "U+1CF15", "U+1CF16", "U+1CF17", "U+1CF18",
    "U+1CF19", "U+1CF1A", "U+1CF1B", "U+1CF1C", "U+1CF1D", "U+1CF1E", "U+1CF1F", "U+1CF20",
    "U+1CF21", "U+1CF22", "U+1CF23", "U+1CF24", "U+1CF25", "U+1CF26", "U+1CF27", "U+1CF28",
    "U+1CF29", "U+1CF2A", "U+1CF2B", "U+1CF2C", "U+1CF2D", "U+1CF30", "U+1CF31", "U+1CF32",
    "U+1CF33", "U+1CF34", "U+1CF35", "U+1CF36", "U+1CF37", "U+1CF38", "U+1CF39", "U+1CF3A",
    "U+1CF3B", "U+1CF3C", "U+1CF3D", "U+1CF3E", "U+1CF3F", "U+1CF40", "U+1CF41", "U+1CF42",
    "U+1CF43", "U+1CF44", "U+1CF45", "U+1CF46", "U+1D167", "U+1D168", "U+1D169", "U+1D173",
    "U+1D174", "U+1D175", "U+1D176", "U+1D177", "U+1D178", "U+1D179", "U+1D17A", "U+1D17B",
    "U+1D17C", "U+1D17D", "U+1D17E", "U+1D17F", "U+1D180", "U+1D181", "U+1D182", "U+1D185",
    "U+1D186", "U+1D187", "U+1D188", "U+1D189", "U+1D18A", "U+1D18B", "U+1D1AA", "U+1D1AB",
    "U+1D1AC", "U+1D1AD", "U+1D242", "U+1D243", "U+1D244", "U+1DA00", "U+1DA01", "U+1DA02",
    "U+1DA03", "U+1DA04", "U+1DA05", "U+1DA06", "U+1DA07", "U+1DA08", "U+1DA09", "U+1DA0A",
    "U+1DA0B", "U+1DA0C", "U+1DA0D", "U+1DA0E", "U+1DA0F", "U+1DA10", "U+1DA11", "U+1DA12",
    "U+1DA13", "U+1DA14", "U+1DA15", "U+1DA16", "U+1DA17", "U+1DA18", "U+1DA19", "U+1DA1A",
    "U+1DA1B", "U+1DA1C", "U+1DA1D", "U+1DA1E", "U+1DA1F", "U+1DA20", "U+1DA21", "U+1DA22",
    "U+1DA23", "U+1DA24", "U+1DA25", "U+1DA26", "U+1DA27", "U+1DA28", "U+1DA29", "U+1DA2A",
    "U+1DA2B", "U+1DA2C", "U+1DA2D", "U+1DA2E", "U+1DA2F", "U+1DA30", "U+1DA31", "U+1DA32",
    "U+1DA33", "U+1DA34", "U+1DA35", "U+1DA36", "U+1DA3B", "U+1DA3C", "U+1DA3D", "U+1DA3E",
    "U+1DA3F", "U+1DA40", "U+1DA41", "U+1DA42", "U+1DA43", "U+1DA44", "U+1DA45", "U+1DA46",
    "U+1DA47", "U+1DA48", "U+1DA49", "U+1DA4A", "U+1DA4B", "U+1DA4C", "U+1DA4D", "U+1DA4E",
    "U+1DA4F", "U+1DA50", "U+1DA51", "U+1DA52", "U+1DA53", "U+1DA54", "U+1DA55", "U+1DA56",
    "U+1DA57", "U+1DA58", "U+1DA59", "U+1DA5A", "U+1DA5B", "U+1DA5C", "U+1DA5D", "U+1DA5E",
    "U+1DA5F", "U+1DA60", "U+1DA61", "U+1DA62", "U+1DA63", "U+1DA64", "U+1DA65", "U+1DA66",
    "U+1DA67", "U+1DA68", "U+1DA69", "U+1DA6A", "U+1DA6B", "U+1DA6C", "U+1DA75", "U+1DA84",
    "U+1DA9B", "U+1DA9C", "U+1DA9D", "U+1DA9E", "U+1DA9F", "U+1DAA1", "U+1DAA2", "U+1DAA3",
    "U+1DAA4", "U+1DAA5", "U+1DAA6", "U+1DAA7", "U+1DAA8", "U+1DAA9", "U+1DAAA", "U+1DAAB",
    "U+1DAAC", "U+1DAAD", "U+1DAAE", "U+1DAAF", "U+1E000", "U+1E001", "U+1E002", "U+1E003",
    "U+1E004", "U+1E005", "U+1E006", "U+1E008", "U+1E009", "U+1E00A", "U+1E00B", "U+1E00C",
    "U+1E00D", "U+1E00E", "U+1E00F", "U+1E010", "U+1E011", "U+1E012", "U+1E013", "U+1E014",
    "U+1E015", "U+1E016", "U+1E017", "U+1E018", "U+1E01B", "U+1E01C", "U+1E01D", "U+1E01E",
    "U+1E01F", "U+1E020", "U+1E021", "U+1E023", "U+1E024", "U+1E026", "U+1E027", "U+1E028",
    "U+1E029", "U+1E02A", "U+1E130", "U+1E131", "U+1E132", "U+1E133", "U+1E134", "U+1E135",
    "U+1E136", "U+1E137", "U+1E138", "U+1E139", "U+1E13A", "U+1E13B", "U+1E13C", "U+1E13D",
    "U+1E2AE", "U+1E2EC", "U+1E2ED", "U+1E2EE", "U+1E2EF", "U+1E8D0", "U+1E8D1", "U+1E8D2",
    "U+1E8D3", "U+1E8D4", "U+1E8D5", "U+1E8D6", "U+1E944", "U+1E945", "U+1E946", "U+1E947",
    "U+1E948", "U+1E949", "U+1E94A", "U+1E94B", "U+1F3FB", "U+1F3FC", "U+1F3FD", "U+1F3FE",
    "U+1F3FF", "U+E0001", "U+E0020", "U+E0021", "U+E0022", "U+E0023", "U+E0024", "U+E0025",
    "U+E0026", "U+E0027", "U+E0028", "U+E0029", "U+E002A", "U+E002B", "U+E002C", "U+E002D",
    "U+E002E", "U+E002F", "U+E0030", "U+E0031", "U+E0032", "U+E0033", "U+E0034", "U+E0035",
    "U+E0036", "U+E0037", "U+E0038", "U+E0039", "U+E003A", "U+E003B", "U+E003C", "U+E003D",
    "U+E003E", "U+E003F", "U+E0040", "U+E0041", "U+E0042", "U+E0043", "U+E0044", "U+E0045",
    "U+E0046", "U+E0047", "U+E0048", "U+E0049", "U+E004A", "U+E004B", "U+E004C", "U+E004D",
    "U+E004E", "U+E004F", "U+E0050", "U+E0051", "U+E0052", "U+E0053", "U+E0054", "U+E0055",
    "U+E0056", "U+E0057", "U+E0058", "U+E0059", "U+E005A", "U+E005B", "U+E005C", "U+E005D",
    "U+E005E", "U+E005F", "U+E0060", "U+E0061", "U+E0062", "U+E0063", "U+E0064", "U+E0065",
    "U+E0066", "U+E0067", "U+E0068", "U+E0069", "U+E006A", "U+E006B", "U+E006C", "U+E006D",
    "U+E006E", "U+E006F", "U+E0070", "U+E0071", "U+E0072", "U+E0073", "U+E0074", "U+E0075",
    "U+E0076", "U+E0077", "U+E0078", "U+E0079", "U+E007A", "U+E007B", "U+E007C", "U+E007D",
    "U+E007E", "U+E007F", "U+E0100", "U+E0101", "U+E0102", "U+E0103", "U+E0104", "U+E0105",
    "U+E0106", "U+E0107", "U+E0108", "U+E0109", "U+E010A", "U+E010B", "U+E010C", "U+E010D",
    "U+E010E", "U+E010F", "U+E0110", "U+E0111", "U+E0112", "U+E0113", "U+E0114", "U+E0115",
    "U+E0116", "U+E0117", "U+E0118", "U+E0119", "U+E011A", "U+E011B", "U+E011C", "U+E011D",
    "U+E011E", "U+E011F", "U+E0120", "U+E0121", "U+E0122", "U+E0123", "U+E0124", "U+E0125",
    "U+E0126", "U+E0127", "U+E0128", "U+E0129", "U+E012A", "U+E012B", "U+E012C", "U+E012D",
    "U+E012E", "U+E012F", "U+E0130", "U+E0131", "U+E0132", "U+E0133", "U+E0134", "U+E0135",
    "U+E0136", "U+E0137", "U+E0138", "U+E0139", "U+E013A", "U+E013B", "U+E013C", "U+E013D",
    "U+E013E", "U+E013F", "U+E0140", "U+E0141", "U+E0142", "U+E0143", "U+E0144", "U+E0145",
    "U+E0146", "U+E0147", "U+E0148", "U+E0149", "U+E014A", "U+E014B", "U+E014C", "U+E014D",
    "U+E014E", "U+E014F", "U+E0150", "U+E0151", "U+E0152", "U+E0153", "U+E0154", "U+E0155",
    "U+E0156", "U+E0157", "U+E0158", "U+E0159", "U+E015A", "U+E015B", "U+E015C", "U+E015D",
    "U+E015E", "U+E015F", "U+E0160", "U+E0161", "U+E0162", "U+E0163", "U+E0164", "U+E0165",
    "U+E0166", "U+E0167", "U+E0168", "U+E0169", "U+E016A", "U+E016B", "U+E016C", "U+E016D",
    "U+E016E", "U+E016F", "U+E0170", "U+E0171", "U+E0172", "U+E0173", "U+E0174", "U+E0175",
    "U+E0176", "U+E0177", "U+E0178", "U+E0179", "U+E017A", "U+E017B", "U+E017C", "U+E017D",
    "U+E017E", "U+E017F", "U+E0180", "U+E0181", "U+E0182", "U+E0183", "U+E0184", "U+E0185",
    "U+E0186", "U+E0187", "U+E0188", "U+E0189", "U+E018A", "U+E018B", "U+E018C", "U+E018D",
    "U+E018E", "U+E018F", "U+E0190", "U+E0191", "U+E0192", "U+E0193", "U+E0194", "U+E0195",
    "U+E0196", "U+E0197", "U+E0198", "U+E0199", "U+E019A", "U+E019B", "U+E019C", "U+E019D",
    "U+E019E", "U+E019F", "U+E01A0", "U+E01A1", "U+E01A2", "U+E01A3", "U+E01A4", "U+E01A5",
    "U+E01A6", "U+E01A7", "U+E01A8", "U+E01A9", "U+E01AA", "U+E01AB", "U+E01AC", "U+E01AD",
    "U+E01AE", "U+E01AF", "U+E01B0", "U+E01B1", "U+E01B2", "U+E01B3", "U+E01B4", "U+E01B5",
    "U+E01B6", "U+E01B7", "U+E01B8", "U+E01B9", "U+E01BA", "U+E01BB", "U+E01BC", "U+E01BD",
    "U+E01BE", "U+E01BF", "U+E01C0", "U+E01C1", "U+E01C2", "U+E01C3", "U+E01C4", "U+E01C5",
    "U+E01C6", "U+E01C7", "U+E01C8", "U+E01C9", "U+E01CA", "U+E01CB", "U+E01CC", "U+E01CD",
    "U+E01CE", "U+E01CF", "U+E01D0", "U+E01D1", "U+E01D2", "U+E01D3", "U+E01D4", "U+E01D5",
    "U+E01D6", "U+E01D7", "U+E01D8", "U+E01D9", "U+E01DA", "U+E01DB", "U+E01DC", "U+E01DD",
    "U+E01DE", "U+E01DF", "U+E01E0", "U+E01E1", "U+E01E2", "U+E01E3", "U+E01E4", "U+E01E5",
    "U+E01E6", "U+E01E7", "U+E01E8", "U+E01E9", "U+E01EA", "U+E01EB", "U+E01EC", "U+E01ED",
    "U+E01EE", "U+E01EF" }
UpperToLower == [A |-> "a", B |-> "b", C |-> "c", D |-> "d", E |-> "e", F |-> "f", G |-> "g", H |-> "h", I |-> "i", J |-> "j", K |-> "k", L |-> "l", M |-> "m", N |-> "n", O |-> "o", P |-> "p", Q |-> "q", R |-> "r", S |-> "s", T |-> "t", U |-> "u", V |-> "v", W |-> "w", X |-> "x", Y |-> "y", Z |-> "z"]

LowerFromSet == {LowerFrom[i] : i \in 1..Len(LowerFrom)}

\* str.lower() of one character, as a text: A..Z, then the table (a capital sigma alone
\* becomes the small sigma; U+0130 becomes two characters)
Lower(c) ==
    IF c \in DOMAIN UpperToLower THEN <<UpperToLower[c]>>
    ELSE IF c = "U+03A3" THEN <<"U+03C3">>
    ELSE IF c \in LowerFromSet THEN LowerTo[CHOOSE i \in 1..Len(LowerFrom) : LowerFrom[i] = c]
    ELSE <<c>>

\* the final-sigma test of str.lower() for the capital sigma at s[i]: the nearest
\* character before it that is not case-ignorable is cased, and the nearest one after it
\* is not (or there is none)
FinalSigma(s, i) ==
    LET before == {j \in 1..(i - 1) : s[j] \notin CaseIgnorable}
        after == {j \in (i + 1)..Len(s) : s[j] \notin CaseIgnorable}
    IN  /\ before # {}
        /\ s[CHOOSE j \in before : \A k \in before : k <= j] \in Cased
        /\ \/ after = {}
           \/ s[CHOOSE j \in after : \A k \in after : j <= k] \notin Cased

\* str.lower() of the character at s[i], in its context
LowerAt(s, i) ==
    IF s[i] = "U+03A3" /\ FinalSigma(s, i) THEN <<"U+03C2">> ELSE Lower(s[i])

\* the characters str.lower() changes to more than one character
MultiLower == {LowerFrom[i] : i \in {j \in 1..Len(LowerFrom) : Len(LowerTo[j]) > 1}}

\* str.lower(): the lowered characters one after the other (cell <<i, m>> is the m-th
\* character of what s[i] becomes)
LowerStr(s) ==
    IF s = <<>> THEN <<>>
    ELSE IF \A i \in 1..Len(s) : s[i] \notin MultiLower
    THEN [i \in 1..Len(s) |-> LowerAt(s, i)[1]]
    ELSE LET cells == UNION {{<<i, m>> : m \in 1..Len(LowerAt(s, i))} : i \in 1..Len(s)}
             rank(p) == Cardinality({q \in cells : q[1] < p[1] \/ (q[1] = p[1] /\ q[2] < p[2])})
         IN  [k \in 1..Cardinality(cells) |->
                 LET p == CHOOSE q \in cells : rank(q) = k - 1 IN LowerAt(s, p[1])[p[2]]]

\* Python `k in s` on strings
Contains(k, s) == \E i \in 0..(Len(s) - Len(k)) : \A j \in 1..Len(k) : s[i + j] = k[j]

SetMin(S) == CHOOSE x \in S : \A y \in S : x <= y

SetMax(S) == CHOOSE x \in S : \A y \in S : x >= y

\* str.strip()
Strip(s) ==
    LET keep == {i \in 1..Len(s) : s[i] \notin Whitespace}
    IN  IF keep = {} THEN <<>> ELSE SubSeq(s, SetMin(keep), SetMax(keep))

\* str.split('\n')
RECURSIVE SplitLines(_)
SplitLines(s) ==
    LET nl == {i \in 1..Len(s) : s[i] = "\n"}
    IN  IF nl = {} THEN <<s>>
        ELSE <<SubSeq(s, 1, SetMin(nl) - 1)>> \o SplitLines(SubSeq(s, SetMin(nl) + 1, Len(s)))

\* str.startswith(p)
StartsWith(s, p) == Len(s) >= Len(p) /\ SubSeq(s, 1, Len(p)) = p

\* list[:n], for any integer n
SliceTo(s, n) ==
    IF n >= 0 THEN SubSeq(s, 1, IF n < Len(s) THEN n ELSE Len(s))
    ELSE SubSeq(s, 1, IF Len(s) + n > 0 THEN Len(s) + n ELSE 0)

\* None, where a string is expected
NoneText == <<"None">>

\* truth value of an optional string: None and '' are false
Truthy(a) == a # NoneText /\ a # <<>>

----------------------------------------------------------------------------
(* LlamaClient *)

\* LlamaClient._fallback_generation
fallback_generation(prompt) ==
    IF Contains(<<"c","o","l","l","e","c","t">>, LowerStr(prompt))
    THEN <<"1","."," ","F","i","n","d"," ","r","e","s","o","u","r","c","e"," ","l","o","c","a","t","i","o","n","\n","2","."," ","A","p","p","r","o","a","c","h"," ","r","e","s","o","u","r","c","e","\n","3","."," ","U","s","e"," ","a","p","p","r","o","p","r","i","a","t","e"," ","t","o","o","l","\n","4","."," ","G","a","t","h","e","r"," ","r","e","s","o","u","r","c","e">>
    ELSE IF Contains(<<"c","r","a","f","t">>, LowerStr(prompt))
    THEN <<"1","."," ","G","a","t","h","e","r"," ","r","e","q","u","i","r","e","d"," ","m","a","t","e","r","i","a","l","s","\n","2","."," ","F","i","n","d"," ","c","r","a","f","t","i","n","g"," ","s","t","a","t","i","o","n","\n","3","."," ","S","e","l","e","c","t"," ","r","e","c","i","p","e","\n","4","."," ","C","r","a","f","t"," ","i","t","e","m">>
    ELSE IF Contains(<<"d","e","f","e","a","t">>, LowerStr(prompt))
    THEN <<"1","."," ","F","i","n","d"," ","e","n","e","m","y","\n","2","."," ","E","q","u","i","p"," ","w","e","a","p","o","n","\n","3","."," ","A","p","p","r","o","a","c","h"," ","c","a","r","e","f","u","l","l","y","\n","4","."," ","A","t","t","a","c","k"," ","a","n","d"," ","r","e","t","r","e","a","t">>
    ELSE <<"1","."," ","E","x","p","l","o","r","e"," ","e","n","v","i","r","o","n","m","e","n","t","\n","2","."," ","G","a","t","h","e","r"," ","r","e","s","o","u","r","c","e","s","\n","3","."," ","C","o","m","p","l","e","t","e"," ","o","b","j","e","c","t","i","v","e","\n","4","."," ","R","e","t","u","r","n"," ","t","o"," ","b","a","s","e">>

\* LlamaClient.generate: the text of a 200 answer, else the client's own canned text
\* (a non-200 status and an exception of the request both end in _fallback_generation)
llama_generate(prompt, backend) ==
    IF backend.status = "ok" THEN backend.text ELSE fallback_generation(prompt)

----------------------------------------------------------------------------
(* SubGoalGenerator *)

fallback_subgoals == <<
    [key |-> <<"s","u","r","v","i","v","e">>, subgoals |-> <<<<"f","i","n","d"," ","f","o","o","d">>, <<"f","i","n","d"," ","s","h","e","l","t","e","r">>, <<"a","v","o","i","d"," ","e","n","e","m","i","e","s">>, <<"m","a","i","n","t","a","i","n"," ","h","e","a","l","t","h">>>>],
    [key |-> <<"c","o","l","l","e","c","t"," ","w","o","o","d">>, subgoals |-> <<<<"f","i","n","d"," ","t","r","e","e","s">>, <<"c","h","o","p"," ","w","o","o","d">>, <<"g","a","t","h","e","r"," ","r","e","s","o","u","r","c","e","s">>, <<"r","e","t","u","r","n"," ","t","o"," ","b","a","s","e">>>>],
    [key |-> <<"m","a","k","e"," ","w","o","o","d","_","p","i","c","k","a","x","e">>, subgoals |-> <<<<"c","o","l","l","e","c","t"," ","w","o","o","d">>, <<"f","i","n","d"," ","w","o","r","k","b","e","n","c","h">>, <<"c","r","a","f","t"," ","p","i","c","k","a","x","e">>, <<"t","e","s","t"," ","t","o","o","l">>>>],
    [key |-> <<"p","l","a","c","e"," ","f","u","r","n","a","c","e">>, subgoals |-> <<<<"c","o","l","l","e","c","t"," ","s","t","o","n","e">>, <<"f","i","n","d"," ","l","o","c","a","t","i","o","n">>, <<"p","l","a","c","e"," ","b","u","i","l","d","i","n","g">>, <<"v","e","r","i","f","y"," ","p","l","a","c","e","m","e","n","t">>>>],
    [key |-> <<"d","e","f","e","a","t"," ","z","o","m","b","i","e">>, subgoals |-> <<<<"f","i","n","d"," ","w","e","a","p","o","n">>, <<"a","p","p","r","o","a","c","h"," ","e","n","e","m","y">>, <<"a","t","t","a","c","k">>, <<"r","e","t","r","e","a","t"," ","i","f"," ","n","e","e","d","e","d">>>>],
    [key |-> <<"e","x","p","l","o","r","e">>, subgoals |-> <<<<"m","o","v","e"," ","a","r","o","u","n","d">>, <<"m","a","p"," ","a","r","e","a">>, <<"f","i","n","d"," ","r","e","s","o","u","r","c","e","s">>, <<"a","v","o","i","d"," ","d","a","n","g","e","r">>>> ] >>

default_subgoals == <<<<"e","x","p","l","o","r","e"," ","e","n","v","i","r","o","n","m","e","n","t">>, <<"g","a","t","h","e","r"," ","r","e","s","o","u","r","c","e","s">>, <<"a","v","o","i","d"," ","d","a","n","g","e","r">>, <<"c","o","m","p","l","e","t","e"," ","o","b","j","e","c","t","i","v","e">>>>

\* the `for key, subgoals in fallback_subgoals.items()` loop, from entry i on
RECURSIVE fallback_from(_, _)
fallback_from(i, goal) ==
    IF i > Len(fallback_subgoals) THEN default_subgoals
    ELSE IF Contains(LowerStr(fallback_subgoals[i].key), LowerStr(goal))
         THEN fallback_subgoals[i].subgoals
         ELSE fallback_from(i + 1, goal)

\* a variant that compares the keys with the goal as written
RECURSIVE fallback_from_cased(_, _)
fallback_from_cased(i, goal) ==
    IF i > Len(fallback_subgoals) THEN default_subgoals
    ELSE IF Contains(fallback_subgoals[i].key, goal)
         THEN fallback_subgoals[i].subgoals
         ELSE fallback_from_cased(i + 1, goal)

generate_fallback_subgoals_cased(goal) == fallback_from_cased(1, goal)

\* SubGoalGenerator._generate_fallback_subgoals
generate_fallback_subgoals(goal) == fallback_from(1, goal)

\* SubGoalGenerator._format_state_info: the text of the state (an observation carries it)
format_state_info(state) == state.info

\* SubGoalGenerator._create_subgoal_prompt with the default template
create_subgoal_prompt(goal, state) ==
    <<"G","e","n","e","r","a","t","e"," ","3","-","5"," ","s","p","e","c","i","f","i","c"," ","s","u","b","g","o","a","l","s"," ","f","o","r",":"," ">> \o goal
        \o (IF state.isNone THEN <<>> ELSE <<"\n","\n","C","u","r","r","e","n","t"," ","s","t","a","t","e",":"," ">> \o format_state_info(state))

Markers == <<<<"1",".">>, <<"2",".">>, <<"3",".">>, <<"4",".">>, <<"5",".">>, <<"-">>, <<"*">>, <<"U+00E2", "U+20AC", "U+00A2">> >>

\* one pass of the `for line in lines` body: [raised, keep, text]
\* (line[1] on a one-character line that starts with a marker raises IndexError)
parse_line(raw) ==
    LET line == Strip(raw)
        marked == \E m \in 1..Len(Markers) : StartsWith(line, Markers[m])
    IN  IF line = <<>> THEN [raised |-> FALSE, keep |-> FALSE, text |-> <<>>]
        ELSE IF marked /\ Len(line) < 2 THEN [raised |-> TRUE, keep |-> FALSE, text |-> <<>>]
        ELSE LET cut == IF ~marked THEN line
                        ELSE IF line[2] = "." THEN Strip(SubSeq(line, 3, Len(line)))
                        ELSE Strip(SubSeq(line, 2, Len(line)))
             IN  [raised |-> FALSE, keep |-> cut # <<>> /\ Len(cut) > 3, text |-> cut]

RECURSIVE parse_lines(_, _, _)
parse_lines(lines, i, acc) ==
    IF i > Len(lines) THEN [raised |-> FALSE, value |-> acc]
    ELSE LET p == parse_line(lines[i])
         IN  IF p.raised THEN [raised |-> TRUE, value |-> <<>>]
             ELSE parse_lines(lines, i + 1, IF p.keep THEN Append(acc, p.text) ELSE acc)

\* SubGoalGenerator._parse_subgoals: [raised, value]
parse_subgoals(response) ==
    IF response = <<>> THEN [raised |-> FALSE, value |-> <<>>]
    ELSE parse_lines(SplitLines(Strip(response)), 1, <<>>)

\* whether generate_subgoals takes the remote path
UsesBackend(g) == g.enabled /\ g.llm_client

\* SubGoalGenerator.generate_subgoals
generate_subgoals(g, goal, state, backend) ==
    IF ~UsesBackend(g) THEN generate_fallback_subgoals(goal)
    ELSE LET parsed == parse_subgoals(llama_generate(create_subgoal_prompt(goal, state), backend))
         IN  IF parsed.raised THEN generate_fallback_subgoals(goal)
             ELSE SliceTo(parsed.value, 5)


\* len(analysis.lower().split()): the number of maximal runs of non-whitespace characters
word_count(s) ==
    Cardinality({i \in 1..Len(s) : s[i] \notin Whitespace /\ (i = 1 \/ s[i - 1] \in Whitespace)})

\* SubGoalGenerator._estimate_complexity
estimate_complexity(analysis_text) ==
    IF analysis_text = <<>> THEN "unknown"
    ELSE IF word_count(LowerStr(analysis_text)) < 10 THEN "simple"
    ELSE IF word_count(LowerStr(analysis_text)) < 20 THEN "medium"
    ELSE "complex"

action_words == <<<<"c","o","l","l","e","c","t">>, <<"c","r","a","f","t">>, <<"p","l","a","c","e">>, <<"d","e","f","e","a","t">>, <<"f","i","n","d">>, <<"m","o","v","e">>, <<"u","s","e">>>>

\* SubGoalGenerator._estimate_steps
estimate_steps(analysis_text) ==
    IF analysis_text = <<>> THEN 3
    ELSE LET count == Cardinality({k \in 1..Len(action_words) :
                                       Contains(action_words[k], LowerStr(analysis_text))})
             least == IF count < 6 THEN count ELSE 6
         IN  IF least > 2 THEN least ELSE 2

\* SubGoalGenerator._analyze_task_fallback
analyze_task_fallback(task) ==
    [task |-> task, analysis |-> <<"B","a","s","i","c"," ","t","a","s","k"," ","a","n","a","l","y","s","i","s">>, complexity |-> "medium", estimated_steps |-> 3]

\* the default 'task_analysis' template with the task filled in
create_analysis_prompt(task) ==
    <<"A","n","a","l","y","z","e"," ","t","h","e"," ","c","u","r","r","e","n","t"," ","t","a","s","k",":"," ">> \o task \o <<"."," ","W","h","a","t"," ","a","r","e"," ","t","h","e"," ","k","e","y"," ","s","t","e","p","s"," ","n","e","e","d","e","d","?">>

\* SubGoalGenerator.analyze_task
analyze_task(g, task, backend) ==
    IF ~UsesBackend(g) THEN analyze_task_fallback(task)
    ELSE LET response == llama_generate(create_analysis_prompt(task), backend)
         IN  [task |-> task, analysis |-> response,
              complexity |-> estimate_complexity(response),
              estimated_steps |-> estimate_steps(response)]

----------------------------------------------------------------------------
(* MCTSNode *)

(* A float is its IEEE 754 binary64 encoding <<s, e, fh, fl>>: the sign bit s, the eleven
   exponent bits e as a number in 0..2047, and the 52 fraction bits as two numbers of 26
   bits, fh the high ones and fl the low ones.  1.0 is <<0, 1023, 0, 0>>, -0.25 is
   <<1, 1021, 0, 0>>, 5.0 is <<0, 1025, 16777216, 0>>, inf is <<0, 2047, 0, 0>>. *)
Floats == (0..1) \X (0..2047) \X (0..2^26 - 1) \X (0..2^26 - 1)

\* 0.0
Zero == <<0, 0, 0, 0>>

\* float('inf')
PosInf == <<0, 2047, 0, 0>>

\* MCTSNode.__init__ with a flat depth: the child takes its parent's depth
NewNode_flat(t, state, action, p) ==
    [state |-> state, action |-> action, parent |-> p, children |-> <<>>,
     visits |-> 0, value |-> Zero, depth |-> IF p = 0 THEN 0 ELSE t[p].depth]

\* MCTSNode.__init__: a fresh node under parent p of arena t (p = 0: parent is None)
NewNode(t, state, action, p) ==
    [state |-> state, action |-> action, parent |-> p, children |-> <<>>,
     visits |-> 0, value |-> Zero, depth |-> IF p = 0 THEN 0 ELSE t[p].depth + 1]

\* MCTSNode.add_child: the new node gets index Len(t) + 1
add_child(t, n, state, action) ==
    [Append(t, NewNode(t, state, action, n)) EXCEPT ![n].children = Append(@, Len(t) + 1)]

\* MCTSNode.is_fully_expanded
is_fully_expanded(node, available_actions) == Len(node.children) >= Len(available_actions)

\* 2^0, 2^1, ..., 2^30
PowersOfTwo ==
    <<1, 2, 4, 8, 16, 32, 64, 128,
      256, 512, 1024, 2048, 4096, 8192, 16384, 32768,
      65536, 131072, 262144, 524288, 1048576, 2097152, 4194304, 8388608,
      16777216, 33554432, 67108864, 134217728, 268435456, 536870912, 1073741824>>

\* 2^k for 0 <= k <= 30
TwoTo(k) == PowersOfTwo[k + 1]

(* Powers of two that are written out below: 2^14 = 16384, 2^25 = 33554432,
   2^26 = 67108864, 2^27 = 134217728, 2^28 = 268435456. *)

IsNaN(a) == a[2] = 2047 /\ (a[3] # 0 \/ a[4] # 0)

IsInf(a) == a[2] = 2047 /\ a[3] = 0 /\ a[4] = 0

IsZero(a) == a[2] = 0 /\ a[3] = 0 /\ a[4] = 0

\* the nan an operation on two infinities or on an infinity and a zero gives
NaN == <<1, 2047, 33554432, 0>>

\* the nan an operation returns for an operand that is nan
Quiet(a) == <<a[1], 2047, IF (a[3] \div 33554432) % 2 = 1 THEN a[3] ELSE a[3] + 33554432, a[4]>>

\* the number of bits of x, 0 <= x < 2^31
BitLen(x) ==
    LET b4(y, r) == r + (IF y < 4 THEN (IF y < 2 THEN y ELSE 2) ELSE IF y < 8 THEN 3 ELSE 4)
        b8(y, r) == b4(IF y < 16 THEN y ELSE y \div 16, IF y < 16 THEN r ELSE r + 4)
        b16(y, r) == b8(IF y < 256 THEN y ELSE y \div 256, IF y < 256 THEN r ELSE r + 8)
    IN  b16(IF x < 65536 THEN x ELSE x \div 65536, IF x < 65536 THEN 0 ELSE 16)

(* The arithmetic works on whole numbers of up to 58 bits written <<hi, lo>> in base
   2^28, eight times a significand, so that three bits below the last place remain. *)

BitLenW(w) == (IF w[1] > 0 THEN 28 ELSE 0) + BitLen(IF w[1] > 0 THEN w[1] ELSE w[2])

\* lo with a 1 in its last bit when bits were lost
Jam(lo, lost) == IF lost /\ lo % 2 = 0 THEN lo + 1 ELSE lo

\* w shifted right by d >= 0 bits; bits that fall out leave a 1 in the last bit
ShrJam(w, d) ==
    LET low(p, q) == <<w[1] \div p, Jam(w[2] \div p + (w[1] % p) * q, w[2] % p # 0)>>
        high(p) == <<0, Jam(w[1] \div p, w[2] # 0 \/ w[1] % p # 0)>>
    IN  IF d = 0 THEN w
        ELSE IF d < 28 THEN low(TwoTo(d), TwoTo(28 - d))
        ELSE IF d < 58 THEN high(TwoTo(d - 28))
        ELSE <<0, IF w[1] # 0 \/ w[2] # 0 THEN 1 ELSE 0>>

\* w shifted left by z bits, the result below 2^58
Shl(w, z) ==
    LET low(p, q) == <<w[1] * p + w[2] \div q, (w[2] % q) * p>>
    IN  IF z = 0 THEN w
        ELSE IF z < 28 THEN low(TwoTo(z), TwoTo(28 - z))
        ELSE <<w[2] * TwoTo(z - 28), 0>>

\* the exponent of a finite float, a subnormal one counted as 1
Exp(a) == IF a[2] = 0 THEN 1 ELSE a[2]

\* eight times the significand of a finite float
Work(a) ==
    <<(IF a[2] = 0 THEN a[3] ELSE 67108864 + a[3]) * 2 + a[4] \div 33554432,
      (a[4] % 33554432) * 8>>

\* the same with its first bit at 2^55, and the exponent that goes with it: <<hi, lo, e>>
WorkNormal(a) ==
    LET at(n, z) == <<n[1], n[2], Exp(a) - z>>
        by(w, z) == at(Shl(w, z), z)
        of(w) == by(w, 56 - BitLenW(w))
    IN  of(Work(a))

\* the float of sign s whose significand is w / 8 rounded to the nearest, ties to even,
\* at exponent e >= 1; w < 2^56, and w < 2^55 only for e = 1
Round(s, e, w) ==
    LET put(e1, hi, lo) ==
            IF hi < 67108864 THEN <<s, 0, hi, lo>>
            ELSE IF e1 >= 2047 THEN <<s, 2047, 0, 0>>
            ELSE <<s, e1, hi - 67108864, lo>>
        \* one more in the last place, with its carries
        up(hi, lo) ==
            IF lo + 1 < 67108864 THEN put(e, hi, lo + 1)
            ELSE IF hi + 1 < 134217728 THEN put(e, hi + 1, 0)
            ELSE put(e + 1, 67108864, 0)
        from(hi, lo, grs) ==
            IF grs < 4 \/ (grs = 4 /\ lo % 2 = 0) THEN put(e, hi, lo) ELSE up(hi, lo)
    IN  from(w[1] \div 2, (w[1] % 2) * 33554432 + w[2] \div 8, w[2] % 8)

\* the float nearest to (-1)^s * w * 2^(e - 1078), for w < 2^58 and any whole e: w is
\* shifted until its first bit is at 2^55, or until the exponent is 1 if that comes first
Pack(s, e, w) ==
    LET shifted(z) == Round(s, e - z, IF z >= 0 THEN Shl(w, z) ELSE ShrJam(w, 0 - z))
        to(z) == shifted(IF z < e - 1 THEN z ELSE e - 1)
    IN  IF w[1] = 0 /\ w[2] = 0 THEN <<s, 0, 0, 0>> ELSE to(56 - BitLenW(w))

\* a + b on floats
FloatAdd(a, b) ==
    LET less == \/ a[2] < b[2]
                \/ a[2] = b[2] /\ a[3] < b[3]
                \/ a[2] = b[2] /\ a[3] = b[3] /\ a[4] < b[4]
        joined(x, hi, lo) == Pack(x[1], Exp(x), <<hi + lo \div 268435456, lo % 268435456>>)
        aligned(x, wx, wy, sign) == joined(x, wx[1] + sign * wy[1], wx[2] + sign * wy[2])
        \* x + y where y is not the greater in magnitude
        sum(x, y) == aligned(x, Work(x), ShrJam(Work(y), Exp(x) - Exp(y)),
                             IF x[1] = y[1] THEN 1 ELSE -1)
    IN  IF a[2] = 2047 \/ b[2] = 2047
        THEN \* nan or an infinity among the operands
             IF IsNaN(a) THEN Quiet(a)
             ELSE IF IsNaN(b) THEN Quiet(b)
             ELSE IF IsInf(a) THEN (IF IsInf(b) /\ a[1] # b[1] THEN NaN ELSE a)
             ELSE b
        ELSE IF IsZero(a) THEN (IF IsZero(b) THEN <<IF a[1] = b[1] THEN a[1] ELSE 0, 0, 0, 0>> ELSE b)
        ELSE IF IsZero(b) THEN a
        ELSE IF a[1] # b[1] /\ a[2] = b[2] /\ a[3] = b[3] /\ a[4] = b[4] THEN Zero
        ELSE sum(IF less THEN b ELSE a, IF less THEN a ELSE b)

\* a work number as four digits in base 2^14, the lowest first
Chunks(w) == <<w[2] % 16384, w[2] \div 16384, w[1] % 16384, w[1] \div 16384>>

\* a * b on floats: the digits of the product of the two significands from the lowest,
\* c the digit being formed with the carry of the one below
FloatMul(a, b) ==
    LET s == (a[1] + b[1]) % 2
        d6(e, x, y, c4, c5, lost) ==
            Pack(s, e, <<x[4] * y[4] + c5 \div 16384,
                         Jam((c4 % 16384) + (c5 % 16384) * 16384, lost)>>)
        d5(e, x, y, c4, lost) ==
            d6(e, x, y, c4, x[3] * y[4] + x[4] * y[3] + c4 \div 16384, lost)
        d4(e, x, y, c, lost) ==
            d5(e, x, y, x[2] * y[4] + x[3] * y[3] + x[4] * y[2] + c \div 16384,
               lost \/ c % 16384 # 0)
        d3(e, x, y, c, lost) ==
            d4(e, x, y, x[1] * y[4] + x[2] * y[3] + x[3] * y[2] + x[4] * y[1] + c \div 16384,
               lost \/ c % 16384 # 0)
        d2(e, x, y, c, lost) ==
            d3(e, x, y, x[1] * y[3] + x[2] * y[2] + x[3] * y[1] + c \div 16384,
               lost \/ c % 16384 # 0)
        d1(e, x, y, c) ==
            d2(e, x, y, x[1] * y[2] + x[2] * y[1] + c \div 16384, c % 16384 # 0)
        product(e, x, y) == d1(e, x, y, x[1] * y[1])
        times(na, nb) == product(na[3] + nb[3] - 1022, Chunks(na), Chunks(nb))
    IN  IF IsNaN(a) THEN Quiet(a)
        ELSE IF IsNaN(b) THEN Quiet(b)
        ELSE IF IsInf(a) \/ IsInf(b) THEN (IF IsZero(a) \/ IsZero(b) THEN NaN ELSE <<s, 2047, 0, 0>>)
        ELSE IF IsZero(a) \/ IsZero(b) THEN <<s, 0, 0, 0>>
        ELSE times(WorkNormal(a), WorkNormal(b))

\* a / n on floats for a whole number n, 0 < n < 2^15 (n is converted to a float exactly):
\* the digits of the significand are divided by n from the highest, u the digit being
\* divided with the remainder of the one above, and L more bits of quotient are taken
FloatDivInt(a, n) ==
    LET bits(e, L, q, u) ==
            Pack(a[1], e, <<q[1], Jam(q[2] + u \div n, u % n # 0)>>)
        q1(e, L, hi, lo, u) ==
            bits(e, L, Shl(<<hi, lo + u \div n>>, L), (u % n) * TwoTo(L))
        q2(e, L, x, hi, u) ==
            q1(e, L, hi, (u \div n) * 16384, (u % n) * 16384 + x[1])
        q3(e, L, x, hi, u) ==
            q2(e, L, x, hi + u \div n, (u % n) * 16384 + x[2])
        q4(e, L, x) ==
            q3(e, L, x, (x[4] \div n) * 16384, (x[4] % n) * 16384 + x[3])
        over(na, L) == q4(na[3] - L, L, Chunks(na))
    IN  IF IsNaN(a) THEN Quiet(a)
        ELSE IF IsInf(a) \/ IsZero(a) THEN a
        ELSE over(WorkNormal(a), BitLen(n))

\* float(k) for a whole number k, -2^26 < k < 2^26
IntToFloat(k) ==
    LET of(s, m, L) == <<s, 1022 + L, (m - TwoTo(L - 1)) * TwoTo(27 - L), 0>>
        sized(s, m) == of(s, m, BitLen(m))
    IN  IF k = 0 THEN Zero ELSE sized(IF k < 0 THEN 1 ELSE 0, IF k < 0 THEN 0 - k ELSE k)

\* a > b on floats
FloatGreater(a, b) ==
    IF IsNaN(a) \/ IsNaN(b) THEN FALSE
    ELSE IF IsZero(a) /\ IsZero(b) THEN FALSE
    ELSE IF a[1] # b[1] THEN a[1] = 0
    ELSE IF a[1] = 0
         THEN \/ a[2] > b[2]
              \/ a[2] = b[2] /\ a[3] > b[3]
              \/ a[2] = b[2] /\ a[3] = b[3] /\ a[4] > b[4]
    ELSE \/ a[2] < b[2]
         \/ a[2] = b[2] /\ a[3] < b[3]
         \/ a[2] = b[2] /\ a[3] = b[3] /\ a[4] < b[4]

\* math.sqrt(math.log(N) / n), row N = 1, 2, ... and column n = 1, 2, ..., each as the
\* float the expression gives
SqrtLogTable == <<
    <<
      <<0, 0, 0, 0>>, <<0, 0, 0, 0>>, <<0, 0, 0, 0>>, <<0, 0, 0, 0>>, <<0, 0, 0, 0>>,
      <<0, 0, 0, 0>>, <<0, 0, 0, 0>>, <<0, 0, 0, 0>>, <<0, 0, 0, 0>>, <<0, 0, 0, 0>>,
      <<0, 0, 0, 0>>, <<0, 0, 0, 0>>, <<0, 0, 0, 0>>, <<0, 0, 0, 0>>, <<0, 0, 0, 0>>,
      <<0, 0, 0, 0>>, <<0, 0, 0, 0>>, <<0, 0, 0, 0>>, <<0, 0, 0, 0>>, <<0, 0, 0, 0>>,
      <<0, 0, 0, 0>>, <<0, 0, 0, 0>>, <<0, 0, 0, 0>>, <<0, 0, 0, 0>>, <<0, 0, 0, 0>>,
      <<0, 0, 0, 0>>, <<0, 0, 0, 0>>, <<0, 0, 0, 0>>, <<0, 0, 0, 0>>, <<0, 0, 0, 0>>,
      <<0, 0, 0, 0>>, <<0, 0, 0, 0>>, <<0, 0, 0, 0>>, <<0, 0, 0, 0>>, <<0, 0, 0, 0>>,
      <<0, 0, 0, 0>>, <<0, 0, 0, 0>>, <<0, 0, 0, 0>>, <<0, 0, 0, 0>>, <<0, 0, 0, 0>>,
      <<0, 0, 0, 0>>, <<0, 0, 0, 0>>, <<0, 0, 0, 0>>, <<0, 0, 0, 0>>, <<0, 0, 0, 0>>,
      <<0, 0, 0, 0>>, <<0, 0, 0, 0>>, <<0, 0, 0, 0>>, <<0, 0, 0, 0>>, <<0, 0, 0, 0>>,
      <<0, 0, 0, 0>>, <<0, 0, 0, 0>>, <<0, 0, 0, 0>>, <<0, 0, 0, 0>>, <<0, 0, 0, 0>>,
      <<0, 0, 0, 0>>, <<0, 0, 0, 0>>, <<0, 0, 0, 0>>, <<0, 0, 0, 0>>, <<0, 0, 0, 0>>,
      <<0, 0, 0, 0>>, <<0, 0, 0, 0>>, <<0, 0, 0, 0>>, <<0, 0, 0, 0>> >>,
    <<
      <<0, 1022, 44634724, 23186759>>, <<0, 1022, 11905785, 4914243>>,
      <<0, 1021, 61921517, 41808113>>, <<0, 1021, 44634724, 23186759>>,
      <<0, 1021, 32837639, 56111407>>, <<0, 1021, 24129393, 55344943>>,
      <<0, 1021, 17361348, 64581621>>, <<0, 1021, 11905785, 4914243>>,
      <<0, 1021, 7386861, 37827461>>, <<0, 1021, 3563986, 41500884>>, <<0, 1021, 275055, 9395070>>,
      <<0, 1020, 61921517, 41808113>>, <<0, 1020, 56859516, 51293375>>,
      <<0, 1020, 52350056, 52874166>>, <<0, 1020, 48299417, 52928601>>,
      <<0, 1020, 44634724, 23186759>>, <<0, 1020, 41298340, 11591277>>,
      <<0, 1020, 38244001, 28921945>>, <<0, 1020, 35434085, 20297760>>,
      <<0, 1020, 32837639, 56111407>>, <<0, 1020, 30428936, 25811771>>,
      <<0, 1020, 28186388, 22389959>>, <<0, 1020, 26091731, 26440600>>,
      <<0, 1020, 24129393, 55344943>>, <<0, 1020, 22286006, 45392953>>,
      <<0, 1020, 20550018, 46383922>>, <<0, 1020, 18911390, 27872076>>,
      <<0, 1020, 17361348, 64581621>>, <<0, 1020, 15892189, 47496079>>,
      <<0, 1020, 14497114, 44149312>>, <<0, 1020, 13170099, 49486308>>,
      <<0, 1020, 11905785, 4914243>>, <<0, 1020, 10699383, 47584145>>,
      <<0, 1020, 9546605, 13422268>>, <<0, 1020, 8443591, 20338783>>,
      <<0, 1020, 7386861, 37827461>>, <<0, 1020, 6373267, 3185929>>,
      <<0, 1020, 5399950, 54669427>>, <<0, 1020, 4464314, 354901>>, <<0, 1020, 3563986, 41500884>>,
      <<0, 1020, 2696802, 15797437>>, <<0, 1020, 1860776, 4965280>>,
      <<0, 1020, 1054085, 58123074>>, <<0, 1020, 275055, 9395070>>, <<0, 1019, 66153141, 7706346>>,
      <<0, 1019, 64696682, 1841202>>, <<0, 1019, 63286956, 34339333>>,
      <<0, 1019, 61921517, 41808113>>, <<0, 1019, 60598094, 7325192>>,
      <<0, 1019, 59314574, 34706335>>, <<0, 1019, 58068993, 1505471>>,
      <<0, 1019, 56859516, 51293375>>, <<0, 1019, 55684434, 33709780>>,
      <<0, 1019, 54542146, 29054015>>, <<0, 1019, 53431155, 2007010>>,
      <<0, 1019, 52350056, 52874166>>, <<0, 1019, 51297534, 51442103>>,
      <<0, 1019, 50272351, 56690421>>, <<0, 1019, 49273344, 40690188>>,
      <<0, 1019, 48299417, 52928601>>, <<0, 1019, 47349539, 15711512>>,
      <<0, 1019, 46422735, 19508134>>, <<0, 1019, 45518086, 41369586>>,
      <<0, 1019, 44634724, 23186759>> >>,
    <<
      <<0, 1023, 3231095, 29456108>>, <<0, 1022, 32366860, 41292655>>,
      <<0, 1022, 14112725, 2262067>>, <<0, 1022, 3231095, 29456108>>,
      <<0, 1021, 58719080, 45098548>>, <<0, 1021, 47755808, 51604226>>,
      <<0, 1021, 39235158, 53908731>>, <<0, 1021, 32366860, 41292655>>,
      <<0, 1021, 26677748, 39274810>>, <<0, 1021, 21864928, 63105926>>,
      <<0, 1021, 17724318, 66565874>>, <<0, 1021, 14112725, 2262067>>,
      <<0, 1021, 10926314, 40701424>>, <<0, 1021, 8087715, 44484599>>,
      <<0, 1021, 5537933, 48853139>>, <<0, 1021, 3231095, 29456108>>,
      <<0, 1021, 1130920, 7395731>>, <<0, 1020, 65525435, 32687251>>,
      <<0, 1020, 61987883, 21532669>>, <<0, 1020, 58719080, 45098548>>,
      <<0, 1020, 55686636, 25795911>>, <<0, 1020, 52863373, 62172069>>,
      <<0, 1020, 50226299, 28028386>>, <<0, 1020, 47755808, 51604226>>,
      <<0, 1020, 45435071, 6864454>>, <<0, 1020, 43249543, 62244609>>,
      <<0, 1020, 41186588, 3016089>>, <<0, 1020, 39235158, 53908731>>,
      <<0, 1020, 37385556, 29727754>>, <<0, 1020, 35629222, 40927549>>,
      <<0, 1020, 33958573, 18565080>>, <<0, 1020, 32366860, 41292655>>,
      <<0, 1020, 30848058, 4911206>>, <<0, 1020, 29396764, 12218103>>,
      <<0, 1020, 28008121, 39969304>>, <<0, 1020, 26677748, 39274810>>,
      <<0, 1020, 25401680, 53075077>>, <<0, 1020, 24176321, 30850456>>,
      <<0, 1020, 22998398, 50294393>>, <<0, 1020, 21864928, 63105926>>,
      <<0, 1020, 20773184, 41161729>>, <<0, 1020, 19720667, 1409070>>,
      <<0, 1020, 18705082, 907450>>, <<0, 1020, 17724318, 66565874>>,
      <<0, 1020, 16776432, 30065699>>, <<0, 1020, 15859625, 48603992>>,
      <<0, 1020, 14972236, 45914168>>, <<0, 1020, 14112725, 2262067>>,
      <<0, 1020, 13279661, 4903181>>, <<0, 1020, 12471715, 46455896>>,
      <<0, 1020, 11687651, 30261910>>, <<0, 1020, 10926314, 40701424>>,
      <<0, 1020, 10186627, 65315374>>, <<0, 1020, 9467584, 34402817>>,
      <<0, 1020, 8768241, 38053064>>, <<0, 1020, 8087715, 44484599>>,
      <<0, 1020, 7425177, 54841676>>, <<0, 1020, 6779849, 19554716>>,
      <<0, 1020, 6150997, 49816062>>, <<0, 1020, 5537933, 48853139>>,
      <<0, 1020, 4940007, 35523181>>, <<0, 1020, 4356606, 17143569>>,
      <<0, 1020, 3787151, 13569533>>, <<0, 1020, 3231095, 29456108>> >>,
    <<
      <<0, 1023, 11905785, 4914243>>, <<0, 1022, 44634724, 23186759>>,
      <<0, 1022, 24129393, 55344943>>, <<0, 1022, 11905785, 4914243>>,
      <<0, 1022, 3563986, 41500884>>, <<0, 1021, 61921517, 41808113>>,
      <<0, 1021, 52350056, 52874166>>, <<0, 1021, 44634724, 23186759>>,
      <<0, 1021, 38244001, 28921945>>, <<0, 1021, 32837639, 56111407>>,
      <<0, 1021, 28186388, 22389959>>, <<0, 1021, 24129393, 55344943>>,
      <<0, 1021, 20550018, 46383922>>, <<0, 1021, 17361348, 64581621>>,
      <<0, 1021, 14497114, 44149312>>, <<0, 1021, 11905785, 4914243>>,
      <<0, 1021, 9546605, 13422268>>, <<0, 1021, 7386861, 37827461>>,
      <<0, 1021, 5399950, 54669427>>, <<0, 1021, 3563986, 41500884>>,
      <<0, 1021, 1860776, 4965280>>, <<0, 1021, 275055, 9395070>>, <<0, 1020, 64696682, 1841202>>,
      <<0, 1020, 61921517, 41808113>>, <<0, 1020, 59314574, 34706335>>,
      <<0, 1020, 56859516, 51293375>>, <<0, 1020, 54542146, 29054015>>,
      <<0, 1020, 52350056, 52874166>>, <<0, 1020, 50272351, 56690421>>,
      <<0, 1020, 48299417, 52928601>>, <<0, 1020, 46422735, 19508134>>,
      <<0, 1020, 44634724, 23186759>>, <<0, 1020, 42928615, 11719662>>,
      <<0, 1020, 41298340, 11591277>>, <<0, 1020, 39738442, 64437311>>,
      <<0, 1020, 38244001, 28921945>>, <<0, 1020, 36810562, 21435569>>,
      <<0, 1020, 35434085, 20297760>>, <<0, 1020, 34110895, 2497968>>,
      <<0, 1020, 32837639, 56111407>>, <<0, 1020, 31611255, 61779919>>,
      <<0, 1020, 30428936, 25811771>>, <<0, 1020, 29288104, 10200400>>,
      <<0, 1020, 28186388, 22389959>>, <<0, 1020, 27121603, 32964891>>,
      <<0, 1020, 26091731, 26440600>>, <<0, 1020, 25094904, 61888070>>,
      <<0, 1020, 24129393, 55344943>>, <<0, 1020, 23193592, 5616278>>,
      <<0, 1020, 22286006, 45392953>>, <<0, 1020, 21405247, 37242913>>,
      <<0, 1020, 20550018, 46383922>>, <<0, 1020, 19719110, 3707816>>,
      <<0, 1020, 18911390, 27872076>>, <<0, 1020, 18125800, 57740639>>,
      <<0, 1020, 17361348, 64581621>>, <<0, 1020, 16617103, 33802996>>,
      <<0, 1020, 15892189, 47496079>>, <<0, 1020, 15185784, 61404883>>,
      <<0, 1020, 14497114, 44149312>>, <<0, 1020, 13825449, 6082100>>,
      <<0, 1020, 13170099, 49486308>>, <<0, 1020, 12530416, 35249444>>,
      <<0, 1020, 11905785, 4914243>> >>,
    <<
      <<0, 1023, 18027872, 65416887>>, <<0, 1022, 53292664, 5767037>>,
      <<0, 1022, 31198572, 1385124>>, <<0, 1022, 18027872, 65416887>>,
      <<0, 1022, 9039748, 33773068>>, <<0, 1022, 2404990, 43705129>>,
      <<0, 1021, 61605783, 46815352>>, <<0, 1021, 53292664, 5767037>>,
      <<0, 1021, 46406785, 20113652>>, <<0, 1021, 40581536, 37446800>>,
      <<0, 1021, 35569904, 10262719>>, <<0, 1021, 31198572, 1385124>>,
      <<0, 1021, 27341865, 27634140>>, <<0, 1021, 23906136, 15100340>>,
      <<0, 1021, 20819979, 57334118>>, <<0, 1021, 18027872, 65416887>>,
      <<0, 1021, 15485902, 57910651>>, <<0, 1021, 13158821, 26214313>>,
      <<0, 1021, 11017963, 65073018>>, <<0, 1021, 9039748, 33773068>>,
      <<0, 1021, 7204572, 33343643>>, <<0, 1021, 5495989, 16429296>>,
      <<0, 1021, 3900083, 20140477>>, <<0, 1021, 2404990, 43705129>>,
      <<0, 1021, 1000525, 38911737>>, <<0, 1020, 66464638, 34237047>>,
      <<0, 1020, 63967717, 24216453>>, <<0, 1020, 61605783, 46815352>>,
      <<0, 1020, 59367097, 20843420>>, <<0, 1020, 57241299, 33728968>>,
      <<0, 1020, 55219210, 57944917>>, <<0, 1020, 53292664, 5767037>>,
      <<0, 1020, 51454364, 58136577>>, <<0, 1020, 49697775, 32118833>>,
      <<0, 1020, 48017016, 52392625>>, <<0, 1020, 46406785, 20113652>>,
      <<0, 1020, 44862282, 48929151>>, <<0, 1020, 43379155, 46968677>>,
      <<0, 1020, 41953444, 6851565>>, <<0, 1020, 40581536, 37446800>>,
      <<0, 1020, 39260131, 60813172>>, <<0, 1020, 37986205, 51030235>>,
      <<0, 1020, 36756981, 24931269>>, <<0, 1020, 35569904, 10262719>>,
      <<0, 1020, 34422619, 22661136>>, <<0, 1020, 33312952, 21586312>>,
      <<0, 1020, 32238891, 21467253>>, <<0, 1020, 31198572, 1385124>>,
      <<0, 1020, 30190263, 65175176>>, <<0, 1020, 29212358, 31457175>>,
      <<0, 1020, 28263357, 51267206>>, <<0, 1020, 27341865, 27634140>>,
      <<0, 1020, 26446577, 42202363>>, <<0, 1020, 25576275, 35903884>>,
      <<0, 1020, 24729818, 11700673>>, <<0, 1020, 23906136, 15100340>>,
      <<0, 1020, 23104226, 21369720>>, <<0, 1020, 22323145, 60384988>>,
      <<0, 1020, 21562008, 38229738>>, <<0, 1020, 20819979, 57334118>>,
      <<0, 1020, 20096273, 24115932>>, <<0, 1020, 19390147, 17813290>>,
      <<0, 1020, 18700901, 8840614>>, <<0, 1020, 18027872, 65416887>> >>,
    <<
      <<0, 1023, 22720793, 453985>>, <<0, 1022, 59929455, 16259823>>,
      <<0, 1022, 36617489, 20678585>>, <<0, 1022, 22720793, 453985>>,
      <<0, 1022, 13237223, 52683588>>, <<0, 1022, 6236743, 54487961>>,
      <<0, 1022, 795973, 63238230>>, <<0, 1021, 59929455, 16259823>>,
      <<0, 1021, 52664012, 605313>>, <<0, 1021, 46517663, 1961742>>,
      <<0, 1021, 41229778, 44847246>>, <<0, 1021, 36617489, 20678585>>,
      <<0, 1021, 32548192, 49458900>>, <<0, 1021, 28923078, 51591980>>,
      <<0, 1021, 25666806, 55167510>>, <<0, 1021, 22720793, 453985>>,
      <<0, 1021, 20038704, 2398506>>, <<0, 1021, 17583348, 55579125>>,
      <<0, 1021, 15324482, 49807614>>, <<0, 1021, 13237223, 52683588>>,
      <<0, 1021, 11300888, 62448574>>, <<0, 1021, 9498124, 60081507>>,
      <<0, 1021, 7814249, 12271147>>, <<0, 1021, 6236743, 54487961>>,
      <<0, 1021, 4754861, 40628506>>, <<0, 1021, 3359316, 41058659>>,
      <<0, 1021, 2042038, 13785723>>, <<0, 1021, 795973, 63238230>>,
      <<0, 1020, 66338724, 19434611>>, <<0, 1020, 64095747, 62734643>>,
      <<0, 1020, 61962197, 28272484>>, <<0, 1020, 59929455, 16259823>>,
      <<0, 1020, 57989825, 1096270>>, <<0, 1020, 56136408, 43216517>>,
      <<0, 1020, 54363002, 61210870>>, <<0, 1020, 52664012, 605313>>,
      <<0, 1020, 51034373, 9072980>>, <<0, 1020, 49469492, 64062853>>,
      <<0, 1020, 47965193, 4529834>>, <<0, 1020, 46517663, 1961742>>,
      <<0, 1020, 45123419, 47733007>>, <<0, 1020, 43779272, 1121806>>,
      <<0, 1020, 42482290, 9126747>>, <<0, 1020, 41229778, 44847246>>,
      <<0, 1020, 40019253, 3135920>>, <<0, 1020, 38848418, 53580189>>,
      <<0, 1020, 37715153, 16401699>>, <<0, 1020, 36617489, 20678585>>,
      <<0, 1020, 35553601, 10105820>>, <<0, 1020, 34521791, 26429632>>,
      <<0, 1020, 33520479, 48943302>>, <<0, 1020, 32548192, 49458900>>,
      <<0, 1020, 31603554, 51414265>>, <<0, 1020, 30685279, 50280993>>,
      <<0, 1020, 29792163, 56272780>>, <<0, 1020, 28923078, 51591980>>,
      <<0, 1020, 28076965, 57956006>>, <<0, 1020, 27252830, 41108571>>,
      <<0, 1020, 26449737, 50729822>>, <<0, 1020, 25666806, 55167510>>,
      <<0, 1020, 24903208, 4610854>>, <<0, 1020, 24158158, 52743645>>,
      <<0, 1020, 23430919, 61948019>>, <<0, 1020, 22720793, 453985>> >>,
    <<
      <<0, 1023, 26505238, 46207662>>, <<0, 1022, 65281469, 43723568>>,
      <<0, 1022, 40987390, 51966199>>, <<0, 1022, 26505238, 46207662>>,
      <<0, 1022, 16622134, 60780196>>, <<0, 1022, 9326730, 51795718>>,
      <<0, 1022, 3656745, 65620209>>, <<0, 1021, 65281469, 43723568>>,
      <<0, 1021, 57709939, 39240594>>, <<0, 1021, 51304650, 16339757>>,
      <<0, 1021, 45793991, 59878525>>, <<0, 1021, 40987390, 51966199>>,
      <<0, 1021, 36746658, 17553830>>, <<0, 1021, 32968821, 25517076>>,
      <<0, 1021, 29575365, 34590533>>, <<0, 1021, 26505238, 46207662>>,
      <<0, 1021, 23710155, 42354391>>, <<0, 1021, 21151358, 29149046>>,
      <<0, 1021, 18797328, 18502538>>, <<0, 1021, 16622134, 60780196>>,
      <<0, 1021, 14604223, 63090505>>, <<0, 1021, 12725511, 1123690>>,
      <<0, 1021, 10970695, 5256335>>, <<0, 1021, 9326730, 51795718>>,
      <<0, 1021, 7782418, 10122584>>, <<0, 1021, 6328080, 3679466>>,
      <<0, 1021, 4955305, 57013754>>, <<0, 1021, 3656745, 65620209>>,
      <<0, 1021, 2425945, 55536919>>, <<0, 1021, 1257210, 21754247>>,
      <<0, 1021, 145492, 50289276>>, <<0, 1020, 65281469, 43723568>>,
      <<0, 1020, 63260124, 32436879>>, <<0, 1020, 61328625, 19043607>>,
      <<0, 1020, 59480507, 33803373>>, <<0, 1020, 57709939, 39240594>>,
      <<0, 1020, 56011645, 29257847>>, <<0, 1020, 54380838, 13967966>>,
      <<0, 1020, 52813163, 31480503>>, <<0, 1020, 51304650, 16339757>>,
      <<0, 1020, 49851668, 44397497>>, <<0, 1020, 48450893, 12636976>>,
      <<0, 1020, 47099270, 39177180>>, <<0, 1020, 45793991, 59878525>>,
      <<0, 1020, 44532467, 58670639>>, <<0, 1020, 43312307, 26352258>>,
      <<0, 1020, 42131298, 22950187>>, <<0, 1020, 40987390, 51966199>>,
      <<0, 1020, 39878681, 62395737>>, <<0, 1020, 38803402, 61822400>>,
      <<0, 1020, 37759906, 57924424>>, <<0, 1020, 36746658, 17553830>>,
      <<0, 1020, 35762223, 34278893>>, <<0, 1020, 34805262, 24321714>>,
      <<0, 1020, 33874520, 16883383>>, <<0, 1020, 32968821, 25517076>>,
      <<0, 1020, 32087062, 31599755>>, <<0, 1020, 31228207, 7729318>>,
      <<0, 1020, 30391280, 43738366>>, <<0, 1020, 29575365, 34590533>>,
      <<0, 1020, 28779597, 515069>>, <<0, 1020, 28003159, 29771880>>,
      <<0, 1020, 27245282, 42754369>>, <<0, 1020, 26505238, 46207662>> >>,
    <<
      <<0, 1023, 29663922, 14578869>>, <<0, 1023, 1319829, 24731491>>,
      <<0, 1022, 44634724, 23186759>>, <<0, 1022, 29663922, 14578869>>,
      <<0, 1022, 19447347, 22919234>>, <<0, 1022, 11905785, 4914243>>,
      <<0, 1022, 6044486, 19358828>>, <<0, 1022, 1319829, 24731491>>,
      <<0, 1021, 61921517, 41808113>>, <<0, 1021, 55300103, 66223968>>,
      <<0, 1021, 49603507, 37821785>>, <<0, 1021, 44634724, 23186759>>,
      <<0, 1021, 40250903, 532352>>, <<0, 1021, 36345596, 7447919>>,
      <<0, 1021, 32837639, 56111407>>, <<0, 1021, 29663922, 14578869>>,
      <<0, 1021, 26774528, 51460751>>, <<0, 1021, 24129393, 55344943>>,
      <<0, 1021, 21695935, 5027145>>, <<0, 1021, 19447347, 22919234>>,
      <<0, 1021, 17361348, 64581621>>, <<0, 1021, 15419245, 25566962>>,
      <<0, 1021, 13605219, 17383556>>, <<0, 1021, 11905785, 4914243>>,
      <<0, 1021, 10309364, 65350186>>, <<0, 1021, 8805955, 18650692>>,
      <<0, 1021, 7386861, 37827461>>, <<0, 1021, 6044486, 19358828>>,
      <<0, 1021, 4772157, 3475249>>, <<0, 1021, 3563986, 41500884>>,
      <<0, 1021, 2414757, 66174784>>, <<0, 1021, 1319829, 24731491>>, <<0, 1021, 275055, 9395070>>,
      <<0, 1020, 65662303, 22309937>>, <<0, 1020, 63751827, 14864376>>,
      <<0, 1020, 61921517, 41808113>>, <<0, 1020, 60165920, 28364198>>,
      <<0, 1020, 58480087, 17150062>>, <<0, 1020, 56859516, 51293375>>,
      <<0, 1020, 55300103, 66223968>>, <<0, 1020, 53798096, 38648555>>,
      <<0, 1020, 52350056, 52874166>>, <<0, 1020, 50952828, 24283856>>,
      <<0, 1020, 49603507, 37821785>>, <<0, 1020, 48299417, 52928601>>,
      <<0, 1020, 47038087, 14726283>>, <<0, 1020, 45817229, 7411816>>,
      <<0, 1020, 44634724, 23186759>>, <<0, 1020, 43488605, 64596467>>,
      <<0, 1020, 42377045, 26148613>>, <<0, 1020, 41298340, 11591277>>,
      <<0, 1020, 40250903, 532352>>, <<0, 1020, 39233251, 61571734>>,
      <<0, 1020, 38244001, 28921945>>, <<0, 1020, 37281854, 43792489>>,
      <<0, 1020, 36345596, 7447919>>, <<0, 1020, 35434085, 20297760>>,
      <<0, 1020, 34546250, 56952652>>, <<0, 1020, 33681085, 13530665>>,
      <<0, 1020, 32837639, 56111407>>, <<0, 1020, 32015020, 58878007>>,
      <<0, 1020, 31212385, 7919935>>, <<0, 1020, 30428936, 25811771>>,
      <<0, 1020, 29663922, 14578869>> >>,
    <<
      <<0, 1023, 32366860, 41292655>>, <<0, 1023, 3231095, 29456108>>,
      <<0, 1022, 47755808, 51604226>>, <<0, 1022, 32366860, 41292655>>,
      <<0, 1022, 21864928, 63105926>>, <<0, 1022, 14112725, 2262067>>,
      <<0, 1022, 8087715, 44484599>>, <<0, 1022, 3231095, 29456108>>,
      <<0, 1021, 65525435, 32687251>>, <<0, 1021, 58719080, 45098548>>,
      <<0, 1021, 52863373, 62172069>>, <<0, 1021, 47755808, 51604226>>,
      <<0, 1021, 43249543, 62244609>>, <<0, 1021, 39235158, 53908731>>,
      <<0, 1021, 35629222, 40927549>>, <<0, 1021, 32366860, 41292655>>,
      <<0, 1021, 29396764, 12218103>>, <<0, 1021, 26677748, 39274810>>,
      <<0, 1021, 24176321, 30850456>>, <<0, 1021, 21864928, 63105926>>,
      <<0, 1021, 19720667, 1409070>>, <<0, 1021, 17724318, 66565874>>,
      <<0, 1021, 15859625, 48603992>>, <<0, 1021, 14112725, 2262067>>,
      <<0, 1021, 12471715, 46455896>>, <<0, 1021, 10926314, 40701424>>,
      <<0, 1021, 9467584, 34402817>>, <<0, 1021, 8087715, 44484599>>,
      <<0, 1021, 6779849, 19554716>>, <<0, 1021, 5537933, 48853139>>,
      <<0, 1021, 4356606, 17143569>>, <<0, 1021, 3231095, 29456108>>,
      <<0, 1021, 2157139, 57855200>>, <<0, 1021, 1130920, 7395731>>, <<0, 1021, 149001, 34941181>>,
      <<0, 1020, 65525435, 32687251>>, <<0, 1020, 63720803, 7099216>>,
      <<0, 1020, 61987883, 21532669>>, <<0, 1020, 60322049, 3260209>>,
      <<0, 1020, 58719080, 45098548>>, <<0, 1020, 57175121, 2559661>>,
      <<0, 1020, 55686636, 25795911>>, <<0, 1020, 54250382, 19667963>>,
      <<0, 1020, 52863373, 62172069>>, <<0, 1020, 51522859, 61771613>>,
      <<0, 1020, 50226299, 28028386>>, <<0, 1020, 48971341, 53826074>>,
      <<0, 1020, 47755808, 51604226>>, <<0, 1020, 46577678, 28017644>>,
      <<0, 1020, 45435071, 6864454>>, <<0, 1020, 44326236, 54925725>>,
      <<0, 1020, 43249543, 62244609>>, <<0, 1020, 42203469, 3953122>>,
      <<0, 1020, 41186588, 3016089>>, <<0, 1020, 40197567, 51440000>>,
      <<0, 1020, 39235158, 53908731>>, <<0, 1020, 38298188, 53443769>>,
      <<0, 1020, 37385556, 29727754>>, <<0, 1020, 36496226, 3594538>>,
      <<0, 1020, 35629222, 40927549>>, <<0, 1020, 34783627, 18150574>>,
      <<0, 1020, 33958573, 18565080>>, <<0, 1020, 33153242, 14573556>>,
      <<0, 1020, 32366860, 41292655>> >>,
    <<
      <<0, 1023, 34723946, 57432987>>, <<0, 1023, 4897807, 6941480>>,
      <<0, 1022, 50477537, 34888943>>, <<0, 1022, 34723946, 57432987>>,
      <<0, 1022, 23973170, 64786576>>, <<0, 1022, 16037277, 59729263>>,
      <<0, 1022, 9869505, 25523868>>, <<0, 1022, 4897807, 6941480>>, <<0, 1022, 779676, 38288658>>,
      <<0, 1021, 61700585, 9167229>>, <<0, 1021, 55706126, 59933806>>,
      <<0, 1021, 50477537, 34888943>>, <<0, 1021, 45864496, 21996809>>,
      <<0, 1021, 41754989, 66238860>>, <<0, 1021, 38063610, 54440030>>,
      <<0, 1021, 34723946, 57432987>>, <<0, 1021, 31683473, 48351276>>,
      <<0, 1021, 28900030, 53994550>>, <<0, 1021, 26339332, 9285086>>,
      <<0, 1021, 23973170, 64786576>>, <<0, 1021, 21778100, 38052742>>,
      <<0, 1021, 19734448, 59851932>>, <<0, 1021, 17825571, 36879234>>,
      <<0, 1021, 16037277, 59729263>>, <<0, 1021, 14357384, 45946389>>,
      <<0, 1021, 12775365, 12160334>>, <<0, 1021, 11282070, 23259295>>,
      <<0, 1021, 9869505, 25523868>>, <<0, 1021, 8530648, 66945365>>,
      <<0, 1021, 7259306, 8937879>>, <<0, 1021, 6049986, 67107433>>, <<0, 1021, 4897807, 6941480>>,
      <<0, 1021, 3798404, 3532818>>, <<0, 1021, 2747867, 62507218>>,
      <<0, 1021, 1742682, 46480084>>, <<0, 1021, 779676, 38288658>>,
      <<0, 1020, 66820823, 55917524>>, <<0, 1020, 65046842, 24036232>>,
      <<0, 1020, 63341535, 66638996>>, <<0, 1020, 61700585, 9167229>>,
      <<0, 1020, 60120041, 16129755>>, <<0, 1020, 58596286, 54282388>>,
      <<0, 1020, 57126000, 36755696>>, <<0, 1020, 55706126, 59933806>>,
      <<0, 1020, 54333849, 19273237>>, <<0, 1020, 53006566, 44739321>>,
      <<0, 1020, 51721872, 48152288>>, <<0, 1020, 50477537, 34888943>>,
      <<0, 1020, 49271491, 17702796>>, <<0, 1020, 48101809, 51371687>>,
      <<0, 1020, 46966701, 37151120>>, <<0, 1020, 45864496, 21996809>>,
      <<0, 1020, 44793634, 41680171>>, <<0, 1020, 43752658, 34899775>>,
      <<0, 1020, 42740203, 21285640>>, <<0, 1020, 41754989, 66238860>>,
      <<0, 1020, 40795818, 26275303>>, <<0, 1020, 39861561, 8888606>>,
      <<0, 1020, 38951157, 65731892>>, <<0, 1020, 38063610, 54440030>>,
      <<0, 1020, 37197979, 953322>>, <<0, 1020, 36353375, 19582522>>,
      <<0, 1020, 35528961, 56401445>>, <<0, 1020, 34723946, 57432987>> >>,
    <<
      <<0, 1023, 36810144, 10766501>>, <<0, 1023, 6372971, 24455987>>,
      <<0, 1022, 52886470, 45009260>>, <<0, 1022, 36810144, 10766501>>,
      <<0, 1022, 25839122, 37610072>>, <<0, 1022, 17740650, 57471649>>,
      <<0, 1022, 11446522, 20803718>>, <<0, 1022, 6372971, 24455987>>,
      <<0, 1022, 2170474, 51916910>>, <<0, 1021, 64339439, 12686097>>,
      <<0, 1021, 58222175, 34263063>>, <<0, 1021, 52886470, 45009260>>,
      <<0, 1021, 48178924, 29276051>>, <<0, 1021, 43985228, 48121024>>,
      <<0, 1021, 40218226, 8227566>>, <<0, 1021, 36810144, 10766501>>,
      <<0, 1021, 33707382, 26131250>>, <<0, 1021, 30866916, 32607982>>,
      <<0, 1021, 28253758, 5429568>>, <<0, 1021, 25839122, 37610072>>,
      <<0, 1021, 23599082, 58032160>>, <<0, 1021, 21513563, 62483431>>,
      <<0, 1021, 19565580, 25760444>>, <<0, 1021, 17740650, 57471649>>,
      <<0, 1021, 16026342, 35456746>>, <<0, 1021, 14411912, 66523030>>,
      <<0, 1021, 12888025, 52375795>>, <<0, 1021, 11446522, 20803718>>,
      <<0, 1021, 10080237, 30434000>>, <<0, 1021, 8782849, 15482712>>,
      <<0, 1021, 7548755, 26032205>>, <<0, 1021, 6372971, 24455987>>,
      <<0, 1021, 5251045, 26792348>>, <<0, 1021, 4178987, 31924264>>,
      <<0, 1021, 3153209, 34572215>>, <<0, 1021, 2170474, 51916910>>,
      <<0, 1021, 1227854, 54586995>>, <<0, 1021, 322692, 50005448>>,
      <<0, 1020, 66014007, 25225405>>, <<0, 1020, 64339439, 12686097>>,
      <<0, 1020, 62726515, 32828384>>, <<0, 1020, 61171544, 45039622>>,
      <<0, 1020, 59671137, 26762137>>, <<0, 1020, 58222175, 34263063>>,
      <<0, 1020, 56821784, 50146763>>, <<0, 1020, 55467310, 50922750>>,
      <<0, 1020, 54156297, 62701823>>, <<0, 1020, 52886470, 45009260>>,
      <<0, 1020, 51655716, 50652494>>, <<0, 1020, 50462072, 39129579>>,
      <<0, 1020, 49303709, 65981385>>, <<0, 1020, 48178924, 29276051>>,
      <<0, 1020, 47086124, 35382769>>, <<0, 1020, 46023822, 31889622>>,
      <<0, 1020, 44990625, 41240352>>, <<0, 1020, 43985228, 48121024>>,
      <<0, 1020, 43006407, 3897700>>, <<0, 1020, 42053010, 9592221>>,
      <<0, 1020, 41123956, 1403471>>, <<0, 1020, 40218226, 8227566>>,
      <<0, 1020, 39334860, 37893983>>, <<0, 1020, 38472953, 58577379>>,
      <<0, 1020, 37631651, 5368670>>, <<0, 1020, 36810144, 10766501>> >>,
    <<
      <<0, 1023, 38678775, 30716799>>, <<0, 1023, 7694293, 15184625>>,
      <<0, 1022, 55044180, 15817210>>, <<0, 1022, 38678775, 30716799>>,
      <<0, 1022, 27510477, 13601407>>, <<0, 1022, 19266381, 61850220>>,
      <<0, 1022, 12859074, 53489221>>, <<0, 1022, 7694293, 15184625>>,
      <<0, 1022, 3416228, 65217109>>, <<0, 1021, 66703091, 39703810>>,
      <<0, 1021, 60475829, 43648578>>, <<0, 1021, 55044180, 15817210>>,
      <<0, 1021, 50251984, 49043002>>, <<0, 1021, 45982879, 40386909>>,
      <<0, 1021, 42148140, 15288805>>, <<0, 1021, 38678775, 30716799>>,
      <<0, 1021, 35520221, 1877809>>, <<0, 1021, 32628678, 64985410>>,
      <<0, 1021, 29968531, 51170860>>, <<0, 1021, 27510477, 13601407>>,
      <<0, 1021, 25230157, 65903213>>, <<0, 1021, 23107138, 3745772>>,
      <<0, 1021, 21124126, 41877738>>, <<0, 1021, 19266381, 61850220>>,
      <<0, 1021, 17521247, 37995212>>, <<0, 1021, 15877787, 65991881>>,
      <<0, 1021, 14326498, 55284049>>, <<0, 1021, 12859074, 53489221>>,
      <<0, 1021, 11468221, 62828017>>, <<0, 1021, 10147504, 39031823>>,
      <<0, 1021, 8891219, 49795488>>, <<0, 1021, 7694293, 15184625>>,
      <<0, 1021, 6552193, 15001700>>, <<0, 1021, 5460857, 65112813>>,
      <<0, 1021, 4416634, 58270624>>, <<0, 1021, 3416228, 65217109>>,
      <<0, 1021, 2456659, 12421250>>, <<0, 1021, 1535220, 56612881>>,
      <<0, 1021, 649453, 40738369>>, <<0, 1020, 66703091, 39703810>>,
      <<0, 1020, 65061164, 61969422>>, <<0, 1020, 63478233, 14982752>>,
      <<0, 1020, 61950846, 14046006>>, <<0, 1020, 60475829, 43648578>>,
      <<0, 1020, 59050257, 40504831>>, <<0, 1020, 57671427, 66386571>>,
      <<0, 1020, 56336841, 2728419>>, <<0, 1020, 55044180, 15817210>>,
      <<0, 1020, 53791295, 25517933>>, <<0, 1020, 52576187, 37717174>>,
      <<0, 1020, 51396995, 49337113>>, <<0, 1020, 50251984, 49043002>>,
      <<0, 1020, 49139534, 34742234>>, <<0, 1020, 48058130, 37727717>>,
      <<0, 1020, 47006355, 10490796>>, <<0, 1020, 45982879, 40386909>>,
      <<0, 1020, 44986457, 10161655>>, <<0, 1020, 44015916, 41791706>>,
      <<0, 1020, 43070156, 40926784>>, <<0, 1020, 42148140, 15288805>>,
      <<0, 1020, 41248890, 22351047>>, <<0, 1020, 40371485, 11371083>>,
      <<0, 1020, 39515054, 26579718>>, <<0, 1020, 38678775, 30716799>> >>,
    <<
      <<0, 1023, 40369063, 55655801>>, <<0, 1023, 8889507, 39997009>>,
      <<0, 1022, 56995957, 8618166>>, <<0, 1022, 40369063, 55655801>>,
      <<0, 1022, 29022317, 5562300>>, <<0, 1022, 20646496, 40121020>>,
      <<0, 1022, 14136812, 47263264>>, <<0, 1022, 8889507, 39997009>>,
      <<0, 1022, 4543087, 59473488>>, <<0, 1022, 866146, 1824002>>, <<0, 1021, 62514394, 8658373>>,
      <<0, 1021, 56995957, 8618166>>, <<0, 1021, 52127191, 21047182>>,
      <<0, 1021, 47789873, 59013461>>, <<0, 1021, 43893862, 37006534>>,
      <<0, 1021, 40369063, 55655801>>, <<0, 1021, 37160041, 41257967>>,
      <<0, 1021, 34222298, 8590102>>, <<0, 1021, 31519646, 50426783>>,
      <<0, 1021, 29022317, 5562300>>, <<0, 1021, 26705562, 42373601>>,
      <<0, 1021, 24548620, 55198664>>, <<0, 1021, 22533924, 39031207>>,
      <<0, 1021, 20646496, 40121020>>, <<0, 1021, 18873478, 17681095>>,
      <<0, 1021, 17203759, 18401267>>, <<0, 1021, 15627683, 28115066>>,
      <<0, 1021, 14136812, 47263264>>, <<0, 1021, 12723736, 41563830>>,
      <<0, 1021, 11381916, 45279658>>, <<0, 1021, 10105558, 50734252>>,
      <<0, 1021, 8889507, 39997009>>, <<0, 1021, 7729158, 65365774>>,
      <<0, 1021, 6620386, 15241714>>, <<0, 1021, 5559478, 26541169>>,
      <<0, 1021, 4543087, 59473488>>, <<0, 1021, 3568185, 65181799>>,
      <<0, 1021, 2632024, 51717964>>, <<0, 1021, 1732104, 42441787>>, <<0, 1021, 866146, 1824002>>,
      <<0, 1021, 32065, 15864406>>, <<0, 1020, 65564770, 32776237>>,
      <<0, 1020, 64012978, 46323699>>, <<0, 1020, 62514394, 8658373>>,
      <<0, 1020, 61066044, 7416401>>, <<0, 1020, 59665183, 25572324>>,
      <<0, 1020, 58309272, 15589351>>, <<0, 1020, 56995957, 8618166>>,
      <<0, 1020, 55723053, 34845688>>, <<0, 1020, 54488530, 37151669>>,
      <<0, 1020, 53290497, 30173169>>, <<0, 1020, 52127191, 21047182>>,
      <<0, 1020, 50996966, 15394290>>, <<0, 1020, 49898283, 31125072>>,
      <<0, 1020, 48829702, 44063426>>, <<0, 1020, 47789873, 59013461>>,
      <<0, 1020, 46777530, 31152319>>, <<0, 1020, 45791482, 34587813>>,
      <<0, 1020, 44830611, 1920304>>, <<0, 1020, 43893862, 37006534>>,
      <<0, 1020, 42980244, 21969380>>, <<0, 1020, 42088819, 58542008>>,
      <<0, 1020, 41218704, 63017686>>, <<0, 1020, 40369063, 55655801>> >>,
    <<
      <<0, 1023, 41910664, 37217779>>, <<0, 1023, 9979583, 61922000>>,
      <<0, 1022, 58776044, 21195334>>, <<0, 1022, 41910664, 37217779>>,
      <<0, 1022, 30401166, 46252461>>, <<0, 1022, 21905208, 21419391>>,
      <<0, 1022, 15302153, 21186174>>, <<0, 1022, 9979583, 61922000>>,
      <<0, 1022, 5570821, 47181474>>, <<0, 1022, 1841139, 62683205>>,
      <<0, 1021, 64373634, 37507885>>, <<0, 1021, 58776044, 21195334>>,
      <<0, 1021, 53837443, 51219096>>, <<0, 1021, 49437914, 25288293>>,
      <<0, 1021, 45486020, 62694062>>, <<0, 1021, 41910664, 37217779>>,
      <<0, 1021, 38655613, 66881601>>, <<0, 1021, 35675733, 15453803>>,
      <<0, 1021, 32934316, 40150830>>, <<0, 1021, 30401166, 46252461>>,
      <<0, 1021, 28051182, 4215711>>, <<0, 1021, 25863302, 22706717>>,
      <<0, 1021, 23819708, 31497806>>, <<0, 1021, 21905208, 21419391>>,
      <<0, 1021, 20106758, 56617769>>, <<0, 1021, 18413090, 25424251>>,
      <<0, 1021, 16814408, 14130222>>, <<0, 1021, 15302153, 21186174>>,
      <<0, 1021, 13868808, 59820037>>, <<0, 1021, 12507742, 44553708>>,
      <<0, 1021, 11213077, 27612186>>, <<0, 1021, 9979583, 61922000>>,
      <<0, 1021, 8802591, 62861669>>, <<0, 1021, 7677915, 40269399>>,
      <<0, 1021, 6601790, 48662363>>, <<0, 1021, 5570821, 47181474>>,
      <<0, 1021, 4581936, 24395889>>, <<0, 1021, 3632347, 27684025>>,
      <<0, 1021, 2719519, 23124956>>, <<0, 1021, 1841139, 62683205>>,
      <<0, 1021, 995095, 38572117>>, <<0, 1021, 179449, 58320524>>,
      <<0, 1020, 65893713, 63302051>>, <<0, 1020, 64373634, 37507885>>,
      <<0, 1020, 62904510, 16930705>>, <<0, 1020, 61483556, 26399627>>,
      <<0, 1020, 60108196, 56757707>>, <<0, 1020, 58776044, 21195334>>,
      <<0, 1020, 57484882, 61708565>>, <<0, 1020, 56232652, 45388110>>,
      <<0, 1020, 55017435, 45908512>>, <<0, 1020, 53837443, 51219096>>,
      <<0, 1020, 52691007, 26134033>>, <<0, 1020, 51576565, 50928809>>,
      <<0, 1020, 50492657, 57156437>>, <<0, 1020, 49437914, 25288293>>,
      <<0, 1020, 48411050, 33421741>>, <<0, 1020, 47410859, 16939153>>,
      <<0, 1020, 46436205, 39279977>>, <<0, 1020, 45486020, 62694062>>,
      <<0, 1020, 44559298, 20339206>>, <<0, 1020, 43655087, 52040822>>,
      <<0, 1020, 42772492, 28248232>>, <<0, 1020, 41910664, 37217779>> >>,
    <<
      <<0, 1023, 43326519, 17691807>>, <<0, 1023, 10980744, 26081662>>,
      <<0, 1022, 60410932, 34267851>>, <<0, 1022, 43326519, 17691807>>,
      <<0, 1022, 31667545, 42915201>>, <<0, 1022, 23061248, 56921447>>,
      <<0, 1022, 16372438, 58627561>>, <<0, 1022, 10980744, 26081662>>,
      <<0, 1022, 6514724, 56533781>>, <<0, 1022, 2736605, 5190270>>,
      <<0, 1021, 66081219, 39400224>>, <<0, 1021, 60410932, 34267851>>,
      <<0, 1021, 55408193, 35774808>>, <<0, 1021, 50951526, 48885294>>,
      <<0, 1021, 46948309, 26164696>>, <<0, 1021, 43326519, 17691807>>,
      <<0, 1021, 40029194, 55289951>>, <<0, 1021, 37010613, 57145170>>,
      <<0, 1021, 34233593, 66223585>>, <<0, 1021, 31667545, 42915201>>,
      <<0, 1021, 29287041, 25016098>>, <<0, 1021, 27070747, 19545317>>,
      <<0, 1021, 25000612, 62380097>>, <<0, 1021, 23061248, 56921447>>,
      <<0, 1021, 21239442, 40996991>>, <<0, 1021, 19523778, 12929706>>,
      <<0, 1021, 17904333, 45214855>>, <<0, 1021, 16372438, 58627561>>,
      <<0, 1021, 14920479, 24656286>>, <<0, 1021, 13541736, 50127440>>,
      <<0, 1021, 12230257, 31006076>>, <<0, 1021, 10980744, 26081662>>,
      <<0, 1021, 9788466, 41097884>>, <<0, 1021, 8649183, 61574526>>,
      <<0, 1021, 7559083, 15452756>>, <<0, 1021, 6514724, 56533781>>,
      <<0, 1021, 5512996, 45961391>>, <<0, 1021, 4551075, 17755996>>,
      <<0, 1021, 3626392, 9868236>>, <<0, 1021, 2736605, 5190270>>, <<0, 1021, 1879572, 67079568>>,
      <<0, 1021, 1053334, 24676040>>, <<0, 1021, 256088, 16599136>>,
      <<0, 1020, 66081219, 39400224>>, <<0, 1020, 64593015, 34850647>>,
      <<0, 1020, 63153607, 33342459>>, <<0, 1020, 61760385, 62178184>>,
      <<0, 1020, 60410932, 34267851>>, <<0, 1020, 59103002, 39393169>>,
      <<0, 1020, 57834509, 28308886>>, <<0, 1020, 56603510, 13747070>>,
      <<0, 1020, 55408193, 35774808>>, <<0, 1020, 54246868, 13411905>>,
      <<0, 1020, 53117953, 8786399>>, <<0, 1020, 52019968, 22270880>>,
      <<0, 1020, 50951526, 48885294>>, <<0, 1020, 49911326, 53555842>>,
      <<0, 1020, 48898145, 60582317>>, <<0, 1020, 47910834, 16558007>>,
      <<0, 1020, 46948309, 26164696>>, <<0, 1020, 46009551, 17324044>>,
      <<0, 1020, 45093597, 40155543>>, <<0, 1020, 44199539, 55800459>>,
      <<0, 1020, 43326519, 17691807>> >>,
    <<
      <<0, 1023, 44634724, 23186759>>, <<0, 1023, 11905785, 4914243>>,
      <<0, 1022, 61921517, 41808113>>, <<0, 1022, 44634724, 23186759>>,
      <<0, 1022, 32837639, 56111407>>, <<0, 1022, 24129393, 55344943>>,
      <<0, 1022, 17361348, 64581621>>, <<0, 1022, 11905785, 4914243>>,
      <<0, 1022, 7386861, 37827461>>, <<0, 1022, 3563986, 41500884>>, <<0, 1022, 275055, 9395070>>,
      <<0, 1021, 61921517, 41808113>>, <<0, 1021, 56859516, 51293375>>,
      <<0, 1021, 52350056, 52874166>>, <<0, 1021, 48299417, 52928601>>,
      <<0, 1021, 44634724, 23186759>>, <<0, 1021, 41298340, 11591277>>,
      <<0, 1021, 38244001, 28921945>>, <<0, 1021, 35434085, 20297760>>,
      <<0, 1021, 32837639, 56111407>>, <<0, 1021, 30428936, 25811771>>,
      <<0, 1021, 28186388, 22389959>>, <<0, 1021, 26091731, 26440600>>,
      <<0, 1021, 24129393, 55344943>>, <<0, 1021, 22286006, 45392953>>,
      <<0, 1021, 20550018, 46383922>>, <<0, 1021, 18911390, 27872076>>,
      <<0, 1021, 17361348, 64581621>>, <<0, 1021, 15892189, 47496079>>,
      <<0, 1021, 14497114, 44149312>>, <<0, 1021, 13170099, 49486308>>,
      <<0, 1021, 11905785, 4914243>>, <<0, 1021, 10699383, 47584145>>,
      <<0, 1021, 9546605, 13422268>>, <<0, 1021, 8443591, 20338783>>,
      <<0, 1021, 7386861, 37827461>>, <<0, 1021, 6373267, 3185929>>,
      <<0, 1021, 5399950, 54669427>>, <<0, 1021, 4464314, 354901>>, <<0, 1021, 3563986, 41500884>>,
      <<0, 1021, 2696802, 15797437>>, <<0, 1021, 1860776, 4965280>>,
      <<0, 1021, 1054085, 58123074>>, <<0, 1021, 275055, 9395070>>, <<0, 1020, 66153141, 7706346>>,
      <<0, 1020, 64696682, 1841202>>, <<0, 1020, 63286956, 34339333>>,
      <<0, 1020, 61921517, 41808113>>, <<0, 1020, 60598094, 7325192>>,
      <<0, 1020, 59314574, 34706335>>, <<0, 1020, 58068993, 1505471>>,
      <<0, 1020, 56859516, 51293375>>, <<0, 1020, 55684434, 33709780>>,
      <<0, 1020, 54542146, 29054015>>, <<0, 1020, 53431155, 2007010>>,
      <<0, 1020, 52350056, 52874166>>, <<0, 1020, 51297534, 51442103>>,
      <<0, 1020, 50272351, 56690421>>, <<0, 1020, 49273344, 40690188>>,
      <<0, 1020, 48299417, 52928601>>, <<0, 1020, 47349539, 15711512>>,
      <<0, 1020, 46422735, 19508134>>, <<0, 1020, 45518086, 41369586>>,
      <<0, 1020, 44634724, 23186759>> >>,
    <<
      <<0, 1023, 45849794, 42594592>>, <<0, 1023, 12764969, 34516707>>,
      <<0, 1022, 63324559, 63088804>>, <<0, 1022, 45849794, 42594592>>,
      <<0, 1022, 33924431, 49778742>>, <<0, 1022, 25121494, 37676390>>,
      <<0, 1022, 18279855, 51364714>>, <<0, 1022, 12764969, 34516707>>,
      <<0, 1022, 8196908, 28396395>>, <<0, 1022, 4332464, 36549177>>,
      <<0, 1022, 1007770, 6261483>>, <<0, 1021, 63324559, 63088804>>,
      <<0, 1021, 58207516, 14765519>>, <<0, 1021, 53649021, 37976610>>,
      <<0, 1021, 49554336, 66252665>>, <<0, 1021, 45849794, 42594592>>,
      <<0, 1021, 42477131, 33617485>>, <<0, 1021, 39389580, 46022276>>,
      <<0, 1021, 36549110, 18177378>>, <<0, 1021, 33924431, 49778742>>,
      <<0, 1021, 31489536, 45943758>>, <<0, 1021, 29222603, 50865511>>,
      <<0, 1021, 27105170, 4802163>>, <<0, 1021, 25121494, 37676390>>,
      <<0, 1021, 23258062, 60919219>>, <<0, 1021, 21503198, 16598053>>,
      <<0, 1021, 19846751, 64428824>>, <<0, 1021, 18279855, 51364714>>,
      <<0, 1021, 16794721, 17501569>>, <<0, 1021, 15384476, 35769540>>,
      <<0, 1021, 14043032, 168109>>, <<0, 1021, 12764969, 34516707>>,
      <<0, 1021, 11545450, 4034577>>, <<0, 1021, 10380136, 36359103>>,
      <<0, 1021, 9265128, 51193342>>, <<0, 1021, 8196908, 28396395>>,
      <<0, 1021, 7172292, 23331791>>, <<0, 1021, 6188392, 35634044>>,
      <<0, 1021, 5242581, 57304258>>, <<0, 1021, 4332464, 36549177>>,
      <<0, 1021, 3455850, 42110372>>, <<0, 1021, 2610733, 49542437>>,
      <<0, 1021, 1795271, 53279561>>, <<0, 1021, 1007770, 6261483>>, <<0, 1021, 246666, 33185828>>,
      <<0, 1020, 66129900, 50323455>>, <<0, 1020, 64704846, 16839163>>,
      <<0, 1020, 63324559, 63088804>>, <<0, 1020, 61986745, 58266515>>,
      <<0, 1020, 60689269, 41804958>>, <<0, 1020, 59430144, 252406>>,
      <<0, 1020, 58207516, 14765519>>, <<0, 1020, 57019656, 28427886>>,
      <<0, 1020, 55864947, 27865566>>, <<0, 1020, 54741875, 25829186>>,
      <<0, 1020, 53649021, 37976610>>, <<0, 1020, 52585054, 46833216>>,
      <<0, 1020, 51548724, 13927892>>, <<0, 1020, 50538854, 1883014>>,
      <<0, 1020, 49554336, 66252665>>, <<0, 1020, 48594129, 47240992>>,
      <<0, 1020, 47657247, 63017474>>, <<0, 1020, 46742762, 23747042>>,
      <<0, 1020, 45849794, 42594592>> >>,
    <<
      <<0, 1023, 46983542, 19103047>>, <<0, 1023, 13566650, 11124774>>,
      <<0, 1022, 64633698, 64550567>>, <<0, 1022, 46983542, 19103047>>,
      <<0, 1022, 34938486, 31380603>>, <<0, 1022, 26047195, 43032882>>,
      <<0, 1022, 19136888, 28955494>>, <<0, 1022, 13566650, 11124774>>,
      <<0, 1022, 8952740, 12735365>>, <<0, 1022, 5049509, 34746649>>,
      <<0, 1022, 1691445, 43620707>>, <<0, 1021, 64633698, 64550567>>,
      <<0, 1021, 59465296, 20657199>>, <<0, 1021, 54861048, 52724610>>,
      <<0, 1021, 50725266, 35240372>>, <<0, 1021, 46983542, 19103047>>,
      <<0, 1021, 43577028, 18830390>>, <<0, 1021, 40458488, 14833032>>,
      <<0, 1021, 37589508, 31367491>>, <<0, 1021, 34938486, 31380603>>,
      <<0, 1021, 32479152, 51374696>>, <<0, 1021, 30189467, 167597>>,
      <<0, 1021, 28050780, 65714902>>, <<0, 1021, 26047195, 43032882>>,
      <<0, 1021, 24165061, 1860665>>, <<0, 1021, 22392583, 5143895>>,
      <<0, 1021, 20719511, 20664090>>, <<0, 1021, 19136888, 28955494>>,
      <<0, 1021, 17636847, 58643238>>, <<0, 1021, 16212448, 50300432>>,
      <<0, 1021, 14857540, 24083340>>, <<0, 1021, 13566650, 11124774>>,
      <<0, 1021, 12334890, 39830002>>, <<0, 1021, 11157881, 892026>>,
      <<0, 1021, 10031682, 5566970>>, <<0, 1021, 8952740, 12735365>>,
      <<0, 1021, 7917840, 14073826>>, <<0, 1021, 6924065, 10126860>>,
      <<0, 1021, 5968761, 35310574>>, <<0, 1021, 5049509, 34746649>>,
      <<0, 1021, 4164097, 11381184>>, <<0, 1021, 3310497, 65755598>>,
      <<0, 1021, 2486851, 25291173>>, <<0, 1021, 1691445, 43620707>>,
      <<0, 1021, 922702, 65659645>>, <<0, 1021, 179166, 17456141>>,
      <<0, 1020, 66027838, 65866496>>, <<0, 1020, 64633698, 64550567>>,
      <<0, 1020, 63282457, 31419034>>, <<0, 1020, 61971958, 44643183>>,
      <<0, 1020, 60700195, 27339515>>, <<0, 1020, 59465296, 20657199>>,
      <<0, 1020, 58265514, 10481608>>, <<0, 1020, 57099215, 35007555>>,
      <<0, 1020, 55964871, 26866790>>, <<0, 1020, 54861048, 52724610>>,
      <<0, 1020, 53786403, 3728038>>, <<0, 1020, 52739671, 5701879>>,
      <<0, 1020, 51719665, 204695>>, <<0, 1020, 50725266, 35240372>>,
      <<0, 1020, 49755421, 53538855>>, <<0, 1020, 48809136, 47195702>>,
      <<0, 1020, 47885472, 38607326>>, <<0, 1020, 46983542, 19103047>> >>,
    <<
      <<0, 1023, 48045702, 63738010>>, <<0, 1023, 14317711, 11729482>>,
      <<0, 1022, 65860176, 30449265>>, <<0, 1022, 48045702, 63738010>>,
      <<0, 1022, 35888511, 56887839>>, <<0, 1022, 26914446, 12931906>>,
      <<0, 1022, 19939806, 28424057>>, <<0, 1022, 14317711, 11729482>>,
      <<0, 1022, 9660847, 20122385>>, <<0, 1022, 5721278, 60822412>>,
      <<0, 1022, 2331952, 42318227>>, <<0, 1021, 65860176, 30449265>>,
      <<0, 1021, 60643657, 51441481>>, <<0, 1021, 55996546, 20101264>>,
      <<0, 1021, 51822261, 23017224>>, <<0, 1021, 48045702, 63738010>>,
      <<0, 1021, 44607475, 32467484>>, <<0, 1021, 41459902, 60378553>>,
      <<0, 1021, 38564213, 63170461>>, <<0, 1021, 35888511, 56887839>>,
      <<0, 1021, 33406282, 40484959>>, <<0, 1021, 31095280, 44375372>>,
      <<0, 1021, 28936684, 14368693>>, <<0, 1021, 26914446, 12931906>>,
      <<0, 1021, 25014789, 37568635>>, <<0, 1021, 23225810, 30521172>>,
      <<0, 1021, 21537162, 65038752>>, <<0, 1021, 19939806, 28424057>>,
      <<0, 1021, 18425801, 636076>>, <<0, 1021, 16988141, 15043847>>,
      <<0, 1021, 15620619, 7187621>>, <<0, 1021, 14317711, 11729482>>,
      <<0, 1021, 13074484, 23410121>>, <<0, 1021, 11886517, 14652261>>,
      <<0, 1021, 10749833, 51486900>>, <<0, 1021, 9660847, 20122385>>,
      <<0, 1021, 8616312, 51037422>>, <<0, 1021, 7613286, 77655>>, <<0, 1021, 6649088, 55805324>>,
      <<0, 1021, 5721278, 60822412>>, <<0, 1021, 4827623, 45419006>>,
      <<0, 1021, 3966077, 52018378>>, <<0, 1021, 3134763, 20699108>>,
      <<0, 1021, 2331952, 42318227>>, <<0, 1021, 1556053, 15555604>>,
      <<0, 1021, 805594, 29861890>>, <<0, 1021, 79215, 48069269>>, <<0, 1020, 65860176, 30449265>>,
      <<0, 1020, 64496355, 24908537>>, <<0, 1020, 63173656, 18767172>>,
      <<0, 1020, 61890053, 23334209>>, <<0, 1020, 60643657, 51441481>>,
      <<0, 1020, 59432706, 4019833>>, <<0, 1020, 58255549, 39612163>>,
      <<0, 1020, 57110645, 8004679>>, <<0, 1020, 55996546, 20101264>>,
      <<0, 1020, 54911895, 66506695>>, <<0, 1020, 53855419, 20766407>>,
      <<0, 1020, 52825917, 21828621>>, <<0, 1020, 51822261, 23017224>>,
      <<0, 1020, 50843387, 46854002>>, <<0, 1020, 49888293, 1220187>>,
      <<0, 1020, 48956029, 60268364>>, <<0, 1020, 48045702, 63738010>> >>,
    <<
      <<0, 1023, 49044391, 29981337>>, <<0, 1023, 15023890, 39144263>>,
      <<0, 1022, 67013362, 40189668>>, <<0, 1022, 49044391, 29981337>>,
      <<0, 1022, 36781765, 66755758>>, <<0, 1022, 27729871, 62807296>>,
      <<0, 1022, 20694743, 64859316>>, <<0, 1022, 15023890, 39144263>>,
      <<0, 1022, 10326639, 42357179>>, <<0, 1022, 6352904, 65164183>>,
      <<0, 1022, 2934184, 30445422>>, <<0, 1021, 67013362, 40189668>>,
      <<0, 1021, 61751603, 11880298>>, <<0, 1021, 57064189, 14192525>>,
      <<0, 1021, 52853702, 26003607>>, <<0, 1021, 49044391, 29981337>>,
      <<0, 1021, 45576345, 42891688>>, <<0, 1021, 42401475, 29822729>>,
      <<0, 1021, 39480673, 24098127>>, <<0, 1021, 36781765, 66755758>>,
      <<0, 1021, 34278009, 26208305>>, <<0, 1021, 31946965, 4908274>>,
      <<0, 1021, 29769648, 81123>>, <<0, 1021, 27729871, 62807296>>,
      <<0, 1021, 25813740, 23985069>>, <<0, 1021, 24009246, 11257150>>,
      <<0, 1021, 22305953, 49162734>>, <<0, 1021, 20694743, 64859316>>,
      <<0, 1021, 19167608, 13569676>>, <<0, 1021, 17717480, 12155515>>,
      <<0, 1021, 16338098, 6954594>>, <<0, 1021, 15023890, 39144263>>,
      <<0, 1021, 13769881, 50947655>>, <<0, 1021, 12571611, 58737754>>,
      <<0, 1021, 11425070, 29065906>>, <<0, 1021, 10326639, 42357179>>,
      <<0, 1021, 9273046, 18164298>>, <<0, 1021, 8261320, 44972968>>,
      <<0, 1021, 7288761, 27686389>>, <<0, 1021, 6352904, 65164183>>,
      <<0, 1021, 5451499, 29186510>>, <<0, 1021, 4582481, 46825119>>,
      <<0, 1021, 3743957, 38952193>>, <<0, 1021, 2934184, 30445422>>,
      <<0, 1021, 2151555, 66873460>>, <<0, 1021, 1394588, 52835956>>,
      <<0, 1021, 661910, 31727445>>, <<0, 1020, 67013362, 40189668>>,
      <<0, 1020, 65637713, 43851365>>, <<0, 1020, 64303543, 22365502>>,
      <<0, 1020, 63008808, 15951047>>, <<0, 1020, 61751603, 11880298>>,
      <<0, 1020, 60530149, 25577947>>, <<0, 1020, 59342783, 61373440>>,
      <<0, 1020, 58187950, 10400393>>, <<0, 1020, 57064189, 14192525>>,
      <<0, 1020, 55970132, 11686114>>, <<0, 1020, 54904493, 6849273>>,
      <<0, 1020, 53866062, 44823732>>, <<0, 1020, 52853702, 26003607>>,
      <<0, 1020, 51866339, 24938398>>, <<0, 1020, 50902961, 36627306>>,
      <<0, 1020, 49962613, 19370224>>, <<0, 1020, 49044391, 29981337>> >>,
    <<
      <<0, 1023, 49986439, 37650819>>, <<0, 1023, 15690019, 12959347>>,
      <<0, 1023, 496141, 2134593>>, <<0, 1022, 49986439, 37650819>>,
      <<0, 1022, 37624359, 29755015>>, <<0, 1022, 28499051, 19065>>,
      <<0, 1022, 21406865, 27152826>>, <<0, 1022, 15690019, 12959347>>,
      <<0, 1022, 10954671, 47470167>>, <<0, 1022, 6948708, 34382751>>,
      <<0, 1022, 3502260, 56429272>>, <<0, 1022, 496141, 2134593>>,
      <<0, 1021, 62796711, 48635427>>, <<0, 1021, 58071281, 492881>>,
      <<0, 1021, 53826645, 33304134>>, <<0, 1021, 49986439, 37650819>>,
      <<0, 1021, 46490266, 37043075>>, <<0, 1021, 43289646, 62018372>>,
      <<0, 1021, 40345155, 66908183>>, <<0, 1021, 37624359, 29755015>>,
      <<0, 1021, 35100296, 26745147>>, <<0, 1021, 32750346, 27136565>>,
      <<0, 1021, 30555370, 29760297>>, <<0, 1021, 28499051, 19065>>,
      <<0, 1021, 26567378, 56964201>>, <<0, 1021, 24748249, 34151374>>,
      <<0, 1021, 23031142, 47585367>>, <<0, 1021, 21406865, 27152826>>,
      <<0, 1021, 19867343, 65420952>>, <<0, 1021, 18405454, 57113859>>,
      <<0, 1021, 17014885, 30064139>>, <<0, 1021, 15690019, 12959347>>,
      <<0, 1021, 14425839, 58338240>>, <<0, 1021, 13217851, 36923591>>,
      <<0, 1021, 12062011, 14138010>>, <<0, 1021, 10954671, 47470167>>,
      <<0, 1021, 9892533, 19769875>>, <<0, 1021, 8872602, 13800293>>,
      <<0, 1021, 7892155, 7643895>>, <<0, 1021, 6948708, 34382751>>,
      <<0, 1021, 6039992, 15197755>>, <<0, 1021, 5163926, 27996928>>,
      <<0, 1021, 4318601, 36432353>>, <<0, 1021, 3502260, 56429272>>,
      <<0, 1021, 2713284, 64575919>>, <<0, 1021, 1950178, 30491950>>,
      <<0, 1021, 1211557, 55935135>>, <<0, 1021, 496141, 2134593>>, <<0, 1020, 66714340, 4681585>>,
      <<0, 1020, 65369349, 7313182>>, <<0, 1020, 64064113, 13944669>>,
      <<0, 1020, 62796711, 48635427>>, <<0, 1020, 61565351, 31078123>>,
      <<0, 1020, 60368356, 25420>>, <<0, 1020, 59204156, 6007088>>, <<0, 1020, 58071281, 492881>>,
      <<0, 1020, 56968350, 49765375>>, <<0, 1020, 55894068, 61861837>>,
      <<0, 1020, 54847216, 27692287>>, <<0, 1020, 53826645, 33304134>>,
      <<0, 1020, 52831274, 39057897>>, <<0, 1020, 51860083, 25972771>>,
      <<0, 1020, 50912108, 36203768>>, <<0, 1020, 49986439, 37650819>> >>,
    <<
      <<0, 1023, 50877650, 44154347>>, <<0, 1023, 16320200, 40480279>>,
      <<0, 1023, 1010681, 67009124>>, <<0, 1022, 50877650, 44154347>>,
      <<0, 1022, 38421482, 59148514>>, <<0, 1022, 29226721, 54612929>>,
      <<0, 1022, 22080557, 44947897>>, <<0, 1022, 16320200, 40480279>>,
      <<0, 1022, 11548812, 29436231>>, <<0, 1022, 7512359, 60451230>>,
      <<0, 1022, 4039681, 23697862>>, <<0, 1022, 1010681, 67009124>>,
      <<0, 1021, 63785421, 44653743>>, <<0, 1021, 59024025, 50037029>>,
      <<0, 1021, 54747084, 24110902>>, <<0, 1021, 50877650, 44154347>>,
      <<0, 1021, 47354868, 21051948>>, <<0, 1021, 44129888, 53973706>>,
      <<0, 1021, 41162987, 26060689>>, <<0, 1021, 38421482, 59148514>>,
      <<0, 1021, 35878209, 14752157>>, <<0, 1021, 33510373, 52446085>>,
      <<0, 1021, 31298691, 59200520>>, <<0, 1021, 29226721, 54612929>>,
      <<0, 1021, 27280347, 48745250>>, <<0, 1021, 25447373, 843440>>,
      <<0, 1021, 23717197, 22236635>>, <<0, 1021, 22080557, 44947897>>,
      <<0, 1021, 20529318, 64354691>>, <<0, 1021, 19056303, 27700187>>,
      <<0, 1021, 17655150, 26904695>>, <<0, 1021, 16320200, 40480279>>,
      <<0, 1021, 15046399, 41886320>>, <<0, 1021, 13829217, 21403563>>,
      <<0, 1021, 12664579, 59794310>>, <<0, 1021, 11548812, 29436231>>,
      <<0, 1021, 10478590, 6833252>>, <<0, 1021, 9450896, 22032743>>,
      <<0, 1021, 8462987, 4314980>>, <<0, 1021, 7512359, 60451230>>,
      <<0, 1021, 6596727, 25838892>>, <<0, 1021, 5713993, 56927995>>,
      <<0, 1021, 4862235, 14459125>>, <<0, 1021, 4039681, 23697862>>,
      <<0, 1021, 3244700, 39432343>>, <<0, 1021, 2475786, 5655061>>,
      <<0, 1021, 1731543, 55686463>>, <<0, 1021, 1010681, 67009124>>,
      <<0, 1021, 312001, 34818036>>, <<0, 1020, 66377639, 24503129>>,
      <<0, 1020, 65062469, 21979908>>, <<0, 1020, 63785421, 44653743>>,
      <<0, 1020, 62544689, 35839580>>, <<0, 1020, 61338583, 50447617>>,
      <<0, 1020, 60165523, 8580044>>, <<0, 1020, 59024025, 50037029>>,
      <<0, 1020, 57912701, 6001424>>, <<0, 1020, 56830242, 61894194>>,
      <<0, 1020, 55775422, 55695879>>, <<0, 1020, 54747084, 24110902>>,
      <<0, 1020, 53744137, 46149933>>, <<0, 1020, 52765554, 51469611>>,
      <<0, 1020, 51810364, 59930529>>, <<0, 1020, 50877650, 44154347>> >>,
    <<
      <<0, 1023, 51722994, 30142523>>, <<0, 1023, 16917948, 62438085>>,
      <<0, 1023, 1498741, 31133494>>, <<0, 1022, 51722994, 30142523>>,
      <<0, 1022, 39177581, 23755232>>, <<0, 1022, 29916942, 8658755>>,
      <<0, 1022, 22719577, 34285021>>, <<0, 1022, 16917948, 62438085>>,
      <<0, 1022, 12112374, 64834258>>, <<0, 1022, 8047002, 17314963>>,
      <<0, 1022, 4549442, 56328535>>, <<0, 1022, 1498741, 31133494>>,
      <<0, 1021, 64723246, 26784077>>, <<0, 1021, 59927736, 18222350>>,
      <<0, 1021, 55620151, 45141329>>, <<0, 1021, 51722994, 30142523>>,
      <<0, 1021, 48174972, 16963973>>, <<0, 1021, 44926886, 38511537>>,
      <<0, 1021, 41938728, 3574603>>, <<0, 1021, 39177581, 23755232>>,
      <<0, 1021, 36616085, 51968426>>, <<0, 1021, 34231285, 26099741>>,
      <<0, 1021, 32003757, 23042380>>, <<0, 1021, 29916942, 8658755>>,
      <<0, 1021, 27956622, 50957563>>, <<0, 1021, 26110515, 16196521>>,
      <<0, 1021, 24367943, 19141704>>, <<0, 1021, 22719577, 34285021>>,
      <<0, 1021, 21157224, 37829015>>, <<0, 1021, 19673655, 15467701>>,
      <<0, 1021, 18262463, 20713578>>, <<0, 1021, 16917948, 62438085>>,
      <<0, 1021, 15635021, 32665592>>, <<0, 1021, 14409118, 25202219>>,
      <<0, 1021, 13236136, 41103009>>, <<0, 1021, 12112374, 64834258>>,
      <<0, 1021, 11034484, 50641755>>, <<0, 1021, 9999427, 54554706>>,
      <<0, 1021, 9004440, 28639704>>, <<0, 1021, 8047002, 17314963>>,
      <<0, 1021, 7124809, 31197417>>, <<0, 1021, 6235751, 24407839>>,
      <<0, 1021, 5377890, 6298337>>, <<0, 1021, 4549442, 56328535>>,
      <<0, 1021, 3748766, 15836821>>, <<0, 1021, 2974342, 43826325>>,
      <<0, 1021, 2224768, 6003701>>, <<0, 1021, 1498741, 31133494>>, <<0, 1021, 795055, 7637318>>,
      <<0, 1021, 112586, 23106922>>, <<0, 1020, 66009443, 52849162>>,
      <<0, 1020, 64723246, 26784077>>, <<0, 1020, 63473624, 49202722>>,
      <<0, 1020, 62258877, 33914628>>, <<0, 1020, 61077412, 13172039>>,
      <<0, 1020, 59927736, 18222350>>, <<0, 1020, 58808449, 16969613>>,
      <<0, 1020, 57718235, 36534333>>, <<0, 1020, 56655857, 62450634>>,
      <<0, 1020, 55620151, 45141329>>, <<0, 1020, 54610019, 9372590>>,
      <<0, 1020, 53624424, 61585429>>, <<0, 1020, 52662391, 23343740>>,
      <<0, 1020, 51722994, 30142523>> >>,
    <<
      <<0, 1023, 52526757, 65648027>>, <<0, 1023, 17486295, 38404932>>,
      <<0, 1023, 1962794, 37164919>>, <<0, 1022, 52526757, 65648027>>,
      <<0, 1022, 39896489, 20771380>>, <<0, 1022, 30573212, 20292928>>,
      <<0, 1022, 23327165, 42162287>>, <<0, 1022, 17486295, 38404932>>,
      <<0, 1022, 12648217, 21395730>>, <<0, 1022, 8555346, 63647545>>,
      <<0, 1022, 5034130, 32487902>>, <<0, 1022, 1962794, 37164919>>,
      <<0, 1021, 65614941, 65344240>>, <<0, 1021, 60786995, 42108818>>,
      <<0, 1021, 56450275, 5097731>>, <<0, 1021, 52526757, 65648027>>,
      <<0, 1021, 48954737, 27675940>>, <<0, 1021, 45684682, 6467334>>,
      <<0, 1021, 42676312, 3542586>>, <<0, 1021, 39896489, 20771380>>,
      <<0, 1021, 37317668, 6753963>>, <<0, 1021, 34916737, 15410353>>,
      <<0, 1021, 32674142, 31445792>>, <<0, 1021, 30573212, 20292928>>,
      <<0, 1021, 28599633, 39096649>>, <<0, 1021, 26741039, 15360847>>,
      <<0, 1021, 24986680, 49553226>>, <<0, 1021, 23327165, 42162287>>,
      <<0, 1021, 21754245, 8393895>>, <<0, 1021, 20260641, 7931230>>,
      <<0, 1021, 18839904, 4982537>>, <<0, 1021, 17486295, 38404932>>,
      <<0, 1021, 16194690, 38325218>>, <<0, 1021, 14960495, 40778243>>,
      <<0, 1021, 13779579, 63457877>>, <<0, 1021, 12648217, 21395730>>,
      <<0, 1021, 11563036, 26539639>>, <<0, 1021, 10520978, 30916102>>,
      <<0, 1021, 9519261, 7166574>>, <<0, 1021, 8555346, 63647545>>,
      <<0, 1021, 7626916, 37641003>>, <<0, 1021, 6731844, 66045763>>,
      <<0, 1021, 5868181, 16785884>>, <<0, 1021, 5034130, 32487902>>,
      <<0, 1021, 4228038, 13847587>>, <<0, 1021, 3448376, 34971316>>,
      <<0, 1021, 2693731, 62464961>>, <<0, 1021, 1962794, 37164919>>,
      <<0, 1021, 1254348, 37513158>>, <<0, 1021, 567263, 44145719>>,
      <<0, 1020, 66909839, 2492245>>, <<0, 1020, 65614941, 65344240>>,
      <<0, 1020, 64356868, 1762063>>, <<0, 1020, 63133904, 27057238>>,
      <<0, 1020, 61944447, 54592075>>, <<0, 1020, 60786995, 42108818>>,
      <<0, 1020, 59660137, 60009818>>, <<0, 1020, 58562550, 8007883>>,
      <<0, 1020, 57492986, 48242962>>, <<0, 1020, 56450275, 5097731>>,
      <<0, 1020, 55433310, 9086110>>, <<0, 1020, 54441049, 32202711>>,
      <<0, 1020, 53472508, 56216382>>, <<0, 1020, 52526757, 65648027>> >>,
    <<
      <<0, 1023, 53292664, 5767037>>, <<0, 1023, 18027872, 65416887>>,
      <<0, 1023, 2404990, 43705129>>, <<0, 1022, 53292664, 5767037>>,
      <<0, 1022, 40581536, 37446800>>, <<0, 1022, 31198572, 1385124>>,
      <<0, 1022, 23906136, 15100340>>, <<0, 1022, 18027872, 65416887>>,
      <<0, 1022, 13158821, 26214313>>, <<0, 1022, 9039748, 33773068>>,
      <<0, 1022, 5495989, 16429296>>, <<0, 1022, 2404990, 43705129>>,
      <<0, 1021, 66464638, 34237047>>, <<0, 1021, 61605783, 46815352>>,
      <<0, 1021, 57241299, 33728968>>, <<0, 1021, 53292664, 5767037>>,
      <<0, 1021, 49697775, 32118833>>, <<0, 1021, 46406785, 20113652>>,
      <<0, 1021, 43379155, 46968677>>, <<0, 1021, 40581536, 37446800>>,
      <<0, 1021, 37986205, 51030235>>, <<0, 1021, 35569904, 10262719>>,
      <<0, 1021, 33312952, 21586312>>, <<0, 1021, 31198572, 1385124>>,
      <<0, 1021, 29212358, 31457175>>, <<0, 1021, 27341865, 27634140>>,
      <<0, 1021, 25576275, 35903884>>, <<0, 1021, 23906136, 15100340>>,
      <<0, 1021, 22323145, 60384988>>, <<0, 1021, 20819979, 57334118>>,
      <<0, 1021, 19390147, 17813290>>, <<0, 1021, 18027872, 65416887>>,
      <<0, 1021, 16727999, 8773485>>, <<0, 1021, 15485902, 57910651>>,
      <<0, 1021, 14297426, 66445475>>, <<0, 1021, 13158821, 26214313>>,
      <<0, 1021, 12066693, 10024813>>, <<0, 1021, 11017963, 65073018>>,
      <<0, 1021, 10009833, 42335548>>, <<0, 1021, 9039748, 33773068>>,
      <<0, 1021, 8105374, 21023117>>, <<0, 1021, 7204572, 33343643>>,
      <<0, 1021, 6335379, 39987788>>, <<0, 1021, 5495989, 16429296>>,
      <<0, 1021, 4684736, 24964534>>, <<0, 1021, 3900083, 20140477>>,
      <<0, 1021, 3140607, 32370229>>, <<0, 1021, 2404990, 43705129>>,
      <<0, 1021, 1692009, 12882430>>, <<0, 1021, 1000525, 38911737>>,
      <<0, 1021, 329480, 50070584>>, <<0, 1020, 66464638, 34237047>>,
      <<0, 1020, 65198510, 25860012>>, <<0, 1020, 63967717, 24216453>>,
      <<0, 1020, 62770645, 59152644>>, <<0, 1020, 61605783, 46815352>>,
      <<0, 1020, 60471711, 55829060>>, <<0, 1020, 59367097, 20843420>>,
      <<0, 1020, 58290686, 38619824>>, <<0, 1020, 57241299, 33728968>>,
      <<0, 1020, 56217823, 64572757>>, <<0, 1020, 55219210, 57944917>>,
      <<0, 1020, 54244469, 42503408>>, <<0, 1020, 53292664, 5767037>> >>,
    <<
      <<0, 1023, 54023965, 25769083>>, <<0, 1023, 18544981, 5484934>>,
      <<0, 1023, 2827207, 43791702>>, <<0, 1022, 54023965, 25769083>>,
      <<0, 1022, 41235632, 21729419>>, <<0, 1022, 31795677, 2021910>>,
      <<0, 1022, 24458948, 2984483>>, <<0, 1022, 18544981, 5484934>>,
      <<0, 1022, 13646355, 39549010>>, <<0, 1022, 9502264, 3677258>>,
      <<0, 1022, 5936980, 34906734>>, <<0, 1022, 2827207, 43791702>>, <<0, 1022, 83540, 15342162>>,
      <<0, 1021, 62387577, 44971201>>, <<0, 1021, 57996584, 15805029>>,
      <<0, 1021, 54023965, 25769083>>, <<0, 1021, 50407241, 63636736>>,
      <<0, 1021, 47096262, 52052488>>, <<0, 1021, 44050243, 53404011>>,
      <<0, 1021, 41235632, 21729419>>, <<0, 1021, 38624537, 58113742>>,
      <<0, 1021, 36193559, 66799746>>, <<0, 1021, 33922899, 51560580>>,
      <<0, 1021, 31795677, 2021910>>, <<0, 1021, 29797399, 34037039>>,
      <<0, 1021, 27915545, 23391741>>, <<0, 1021, 26139231, 36019314>>,
      <<0, 1021, 24458948, 2984483>>, <<0, 1021, 22866342, 58197615>>,
      <<0, 1021, 21354046, 54406098>>, <<0, 1021, 19915529, 42109251>>,
      <<0, 1021, 18544981, 5484934>>, <<0, 1021, 17237211, 66691803>>,
      <<0, 1021, 15987571, 27826845>>, <<0, 1021, 14791876, 61266742>>,
      <<0, 1021, 13646355, 39549010>>, <<0, 1021, 12547593, 61783228>>,
      <<0, 1021, 11492494, 61273326>>, <<0, 1021, 10478241, 22667981>>,
      <<0, 1021, 9502264, 3677258>>, <<0, 1021, 8562214, 41099691>>,
      <<0, 1021, 7655941, 30691853>>, <<0, 1021, 6781469, 13798035>>,
      <<0, 1021, 5936980, 34906734>>, <<0, 1021, 5120800, 14486279>>,
      <<0, 1021, 4331381, 18509370>>, <<0, 1021, 3567292, 34416513>>,
      <<0, 1021, 2827207, 43791702>>, <<0, 1021, 2109895, 43486132>>,
      <<0, 1021, 1414212, 4387947>>, <<0, 1021, 739091, 27068040>>, <<0, 1021, 83540, 15342162>>,
      <<0, 1020, 66002126, 3696406>>, <<0, 1020, 64763857, 25065502>>,
      <<0, 1020, 63559515, 3808447>>, <<0, 1020, 62387577, 44971201>>,
      <<0, 1020, 61246617, 41442842>>, <<0, 1020, 60135293, 55628960>>,
      <<0, 1020, 59052345, 8873135>>, <<0, 1020, 57996584, 15805029>>,
      <<0, 1020, 56966892, 17056284>>, <<0, 1020, 55962213, 48672203>>,
      <<0, 1020, 54981552, 3979311>>, <<0, 1020, 54023965, 25769083>> >>,
    <<
      <<0, 1023, 54723519, 36947532>>, <<0, 1023, 19039640, 38703169>>,
      <<0, 1023, 3231095, 29456108>>, <<0, 1022, 54723519, 36947532>>,
      <<0, 1022, 41861332, 39725277>>, <<0, 1022, 32366860, 41292655>>,
      <<0, 1022, 24987761, 19346933>>, <<0, 1022, 19039640, 38703169>>,
      <<0, 1022, 14112725, 2262067>>, <<0, 1022, 9944700, 64250094>>,
      <<0, 1022, 6358827, 37237836>>, <<0, 1022, 3231095, 29456108>>, <<0, 1022, 471583, 4166362>>,
      <<0, 1021, 63135432, 35668037>>, <<0, 1021, 58719080, 45098548>>,
      <<0, 1021, 54723519, 36947532>>, <<0, 1021, 51085909, 11838433>>,
      <<0, 1021, 47755808, 51604226>>, <<0, 1021, 44692198, 48708081>>,
      <<0, 1021, 41861332, 39725277>>, <<0, 1021, 39235158, 53908731>>,
      <<0, 1021, 36790141, 53228368>>, <<0, 1021, 34506368, 18581652>>,
      <<0, 1021, 32366860, 41292655>>, <<0, 1021, 30357042, 56401572>>,
      <<0, 1021, 28464320, 52776804>>, <<0, 1021, 26677748, 39274810>>,
      <<0, 1021, 24987761, 19346933>>, <<0, 1021, 23385958, 44114076>>,
      <<0, 1021, 21864928, 63105926>>, <<0, 1021, 20418104, 11875696>>,
      <<0, 1021, 19039640, 38703169>>, <<0, 1021, 17724318, 66565873>>,
      <<0, 1021, 16467461, 41194294>>, <<0, 1021, 15264861, 57524284>>,
      <<0, 1021, 14112725, 2262067>>, <<0, 1021, 13007617, 60857034>>,
      <<0, 1021, 11946425, 40082827>>, <<0, 1021, 10926314, 40701424>>,
      <<0, 1021, 9944700, 64250094>>, <<0, 1021, 8999222, 42666920>>,
      <<0, 1021, 8087715, 44484599>>, <<0, 1021, 7208193, 16555519>>,
      <<0, 1021, 6358827, 37237836>>, <<0, 1021, 5537933, 48853139>>,
      <<0, 1021, 4743955, 54682569>>, <<0, 1021, 3975454, 24366109>>,
      <<0, 1021, 3231095, 29456108>>, <<0, 1021, 2509640, 59460798>>,
      <<0, 1021, 1809939, 44384308>>, <<0, 1021, 1130920, 7395731>>, <<0, 1021, 471583, 4166362>>,
      <<0, 1020, 66770855, 19712859>>, <<0, 1020, 65525435, 32687251>>,
      <<0, 1020, 64314137, 65321865>>, <<0, 1020, 63135432, 35668037>>,
      <<0, 1020, 61987883, 21532669>>, <<0, 1020, 60870141, 35337768>>,
      <<0, 1020, 59780938, 46517499>>, <<0, 1020, 58719080, 45098548>>,
      <<0, 1020, 57683442, 7839242>>, <<0, 1020, 56672961, 31491336>>,
      <<0, 1020, 55686636, 25795911>>, <<0, 1020, 54723519, 36947532>> >>,
    <<
      <<0, 1023, 55393850, 14512049>>, <<0, 1023, 19513635, 62818292>>,
      <<0, 1023, 3618111, 1960226>>, <<0, 1022, 55393850, 14512049>>,
      <<0, 1022, 42460894, 38003932>>, <<0, 1022, 32914183, 20933370>>,
      <<0, 1022, 25494483, 43076312>>, <<0, 1022, 19513635, 62818292>>,
      <<0, 1022, 14559612, 9674699>>, <<0, 1022, 10368655, 19810903>>,
      <<0, 1022, 6763052, 10437571>>, <<0, 1022, 3618111, 1960226>>, <<0, 1022, 843415, 41196456>>,
      <<0, 1021, 63852046, 10489603>>, <<0, 1021, 59411395, 13864312>>,
      <<0, 1021, 55393850, 14512049>>, <<0, 1021, 51736225, 29819042>>,
      <<0, 1021, 48387802, 39018480>>, <<0, 1021, 45307336, 22295139>>,
      <<0, 1021, 42460894, 38003932>>, <<0, 1021, 39820271, 25354265>>,
      <<0, 1021, 37361801, 47354793>>, <<0, 1021, 35065462, 47030401>>,
      <<0, 1021, 32914183, 20933370>>, <<0, 1021, 30893307, 25031412>>,
      <<0, 1021, 28990171, 28461598>>, <<0, 1021, 27193769, 24983256>>,
      <<0, 1021, 25494483, 43076312>>, <<0, 1021, 23883867, 52074495>>,
      <<0, 1021, 22354469, 16271389>>, <<0, 1021, 20899683, 63326239>>,
      <<0, 1021, 19513635, 62818292>>, <<0, 1021, 18191077, 23884021>>,
      <<0, 1021, 16927304, 44078003>>, <<0, 1021, 15718088, 7282770>>,
      <<0, 1021, 14559612, 9674699>>, <<0, 1021, 13448424, 42764050>>,
      <<0, 1021, 12381393, 38261490>>, <<0, 1021, 11355669, 57327005>>,
      <<0, 1021, 10368655, 19810903>>, <<0, 1021, 9417974, 59248006>>,
      <<0, 1021, 8501452, 49127875>>, <<0, 1021, 7617091, 8010441>>,
      <<0, 1021, 6763052, 10437571>>, <<0, 1021, 5937641, 47705576>>,
      <<0, 1021, 5139295, 18341575>>, <<0, 1021, 4366565, 31573858>>,
      <<0, 1021, 3618111, 1960226>>, <<0, 1021, 2892686, 65814483>>,
      <<0, 1021, 2189135, 63676407>>, <<0, 1021, 1506380, 25672758>>,
      <<0, 1021, 843415, 41196456>>, <<0, 1021, 199303, 42946636>>, <<0, 1020, 66255199, 5541538>>,
      <<0, 1020, 65037236, 61844003>>, <<0, 1020, 63852046, 10489603>>,
      <<0, 1020, 62698183, 3098297>>, <<0, 1020, 61574291, 23820606>>,
      <<0, 1020, 60479095, 43490950>>, <<0, 1020, 59411395, 13864312>>,
      <<0, 1020, 58370058, 33049455>>, <<0, 1020, 57354018, 7157205>>,
      <<0, 1020, 56362266, 12695840>>, <<0, 1020, 55393850, 14512049>> >>,
    <<
      <<0, 1023, 56037196, 41321012>>, <<0, 1023, 19968550, 36090682>>,
      <<0, 1023, 3989547, 16517794>>, <<0, 1022, 56037196, 41321012>>,
      <<0, 1022, 43036321, 5317284>>, <<0, 1022, 33439473, 30028728>>,
      <<0, 1022, 25980807, 54195393>>, <<0, 1022, 19968550, 36090682>>,
      <<0, 1022, 14988509, 49916963>>, <<0, 1022, 10775543, 19097404>>,
      <<0, 1022, 7151004, 42373054>>, <<0, 1022, 3989547, 16517794>>,
      <<0, 1022, 1200279, 66297516>>, <<0, 1021, 64539812, 25979982>>,
      <<0, 1021, 60075840, 34284138>>, <<0, 1021, 56037196, 41321012>>,
      <<0, 1021, 52360363, 8643214>>, <<0, 1021, 48994355, 25751287>>,
      <<0, 1021, 45897711, 32058341>>, <<0, 1021, 43036321, 5317284>>,
      <<0, 1021, 40381830, 10318247>>, <<0, 1021, 37910449, 24063974>>,
      <<0, 1021, 35602050, 46365829>>, <<0, 1021, 33439473, 30028728>>,
      <<0, 1021, 31407984, 33056810>>, <<0, 1021, 29494853, 57834342>>,
      <<0, 1021, 27689017, 44393346>>, <<0, 1021, 25980807, 54195393>>,
      <<0, 1021, 24361733, 32537037>>, <<0, 1021, 22824303, 1533163>>,
      <<0, 1021, 21361877, 43029105>>, <<0, 1021, 19968550, 36090682>>,
      <<0, 1021, 18639046, 19371576>>, <<0, 1021, 17368636, 43344678>>,
      <<0, 1021, 16153069, 44691331>>, <<0, 1021, 14988509, 49916963>>,
      <<0, 1021, 13871486, 41841123>>, <<0, 1021, 12798851, 56301362>>,
      <<0, 1021, 11767741, 22754298>>, <<0, 1021, 10775543, 19097404>>,
      <<0, 1021, 9819870, 12917391>>, <<0, 1021, 8898534, 50369802>>,
      <<0, 1021, 8009528, 49926649>>, <<0, 1021, 7151004, 42373054>>,
      <<0, 1021, 6321259, 25914478>>, <<0, 1021, 5518720, 18777845>>,
      <<0, 1021, 4741932, 22739924>>, <<0, 1021, 3989547, 16517794>>,
      <<0, 1021, 3260313, 33198988>>, <<0, 1021, 2553067, 42294318>>,
      <<0, 1021, 1866726, 29708135>>, <<0, 1021, 1200279, 66297516>>,
      <<0, 1021, 552785, 22611999>>, <<0, 1020, 66955585, 62407925>>,
      <<0, 1020, 65731227, 27382130>>, <<0, 1020, 64539812, 25979982>>,
      <<0, 1020, 63379889, 36540993>>, <<0, 1020, 62250095, 34992610>>,
      <<0, 1020, 61149148, 12423489>>, <<0, 1020, 60075840, 34284138>>,
      <<0, 1020, 59029035, 1216275>>, <<0, 1020, 58007658, 47121698>>,
      <<0, 1020, 57010698, 27521282>>, <<0, 1020, 56037196, 41321012>> >>,
    <<
      <<0, 1023, 56655554, 26511953>>, <<0, 1023, 20405795, 34678856>>,
      <<0, 1023, 4346556, 18554575>>, <<0, 1022, 56655554, 26511953>>,
      <<0, 1022, 43589397, 6095554>>, <<0, 1022, 33944360, 30875053>>,
      <<0, 1022, 26448242, 23619896>>, <<0, 1022, 20405795, 34678856>>,
      <<0, 1022, 15400748, 17674635>>, <<0, 1022, 11166627, 5562347>>,
      <<0, 1022, 7523888, 27001802>>, <<0, 1022, 4346556, 18554575>>,
      <<0, 1022, 1543283, 11370961>>, <<0, 1021, 65200864, 44246844>>,
      <<0, 1021, 60714477, 45582308>>, <<0, 1021, 56655554, 26511953>>,
      <<0, 1021, 52960258, 19516287>>, <<0, 1021, 49577348, 46238474>>,
      <<0, 1021, 46465155, 33062037>>, <<0, 1021, 43589397, 6095554>>,
      <<0, 1021, 40921577, 4953814>>, <<0, 1021, 38437786, 43261606>>,
      <<0, 1021, 36117796, 49059358>>, <<0, 1021, 33944360, 30875053>>,
      <<0, 1021, 31902670, 48053108>>, <<0, 1021, 29979933, 41141523>>,
      <<0, 1021, 28165029, 47109055>>, <<0, 1021, 26448242, 23619896>>,
      <<0, 1021, 24821038, 7558229>>, <<0, 1021, 23275887, 46661337>>,
      <<0, 1021, 21806118, 66038528>>, <<0, 1021, 20405795, 34678856>>,
      <<0, 1021, 19069615, 25483142>>, <<0, 1021, 17792826, 39121272>>,
      <<0, 1021, 16571155, 55865944>>, <<0, 1021, 15400748, 17674635>>,
      <<0, 1021, 14278116, 13041725>>, <<0, 1021, 13200095, 23479711>>,
      <<0, 1021, 12163807, 19961168>>, <<0, 1021, 11166627, 5562347>>,
      <<0, 1021, 10206155, 15760313>>, <<0, 1021, 9280193, 30727146>>,
      <<0, 1021, 8386723, 30411804>>, <<0, 1021, 7523888, 27001802>>,
      <<0, 1021, 6689976, 48802946>>, <<0, 1021, 5883407, 53832212>>,
      <<0, 1021, 5102719, 23337008>>, <<0, 1021, 4346556, 18554575>>,
      <<0, 1021, 3613660, 53497610>>, <<0, 1021, 2902863, 41164858>>,
      <<0, 1021, 2213076, 5097880>>, <<0, 1021, 1543283, 11370961>>, <<0, 1021, 892537, 15442230>>,
      <<0, 1021, 259952, 20583368>>, <<0, 1020, 66398262, 11788810>>,
      <<0, 1020, 65200864, 44246844>>, <<0, 1020, 64035117, 30472342>>,
      <<0, 1020, 62899650, 23844268>>, <<0, 1020, 61793174, 53165124>>,
      <<0, 1020, 60714477, 45582308>>, <<0, 1020, 59662415, 55304606>>,
      <<0, 1020, 58635910, 55983391>>, <<0, 1020, 57633944, 31493195>>,
      <<0, 1020, 56655554, 26511953>> >>,
    <<
      <<0, 1023, 57250709, 26380638>>, <<0, 1023, 20826633, 43736771>>,
      <<0, 1023, 4690169, 11731605>>, <<0, 1022, 57250709, 26380638>>,
      <<0, 1022, 44121719, 60662401>>, <<0, 1022, 34430302, 32285974>>,
      <<0, 1022, 26898137, 16263989>>, <<0, 1022, 20826633, 43736771>>,
      <<0, 1022, 15797518, 17587092>>, <<0, 1022, 11543036, 10322375>>,
      <<0, 1022, 7882780, 24813006>>, <<0, 1022, 4690169, 11731605>>,
      <<0, 1022, 1873415, 51246982>>, <<0, 1021, 65837112, 7714772>>,
      <<0, 1021, 61329151, 7926784>>, <<0, 1021, 57250709, 26380638>>,
      <<0, 1021, 53537643, 30104433>>, <<0, 1021, 50138466, 13576451>>,
      <<0, 1021, 47011307, 11759758>>, <<0, 1021, 44121719, 60662401>>,
      <<0, 1021, 41441070, 63482516>>, <<0, 1021, 38945336, 35725400>>,
      <<0, 1021, 36614190, 21058889>>, <<0, 1021, 34430302, 32285974>>,
      <<0, 1021, 32378794, 47948056>>, <<0, 1021, 30446811, 40611207>>,
      <<0, 1021, 28623180, 15642140>>, <<0, 1021, 26898137, 16263989>>,
      <<0, 1021, 25263108, 9874667>>, <<0, 1021, 23710527, 30344061>>,
      <<0, 1021, 22233690, 64206805>>, <<0, 1021, 20826633, 43736771>>,
      <<0, 1021, 19484028, 8568940>>, <<0, 1021, 18201099, 36465079>>,
      <<0, 1021, 16973554, 3726072>>, <<0, 1021, 15797518, 17587092>>,
      <<0, 1021, 14669487, 47661318>>, <<0, 1021, 13586282, 60946765>>,
      <<0, 1021, 12545011, 39037409>>, <<0, 1021, 11543036, 10322375>>,
      <<0, 1021, 10577945, 41248587>>, <<0, 1021, 9647531, 6553125>>,
      <<0, 1021, 8749764, 40163500>>, <<0, 1021, 7882780, 24813006>>,
      <<0, 1021, 7044858, 40441601>>, <<0, 1021, 6234411, 4742577>>,
      <<0, 1021, 5449968, 31049027>>, <<0, 1021, 4690169, 11731605>>,
      <<0, 1021, 3953749, 24661631>>, <<0, 1021, 3239534, 8145871>>,
      <<0, 1021, 2546429, 37059676>>, <<0, 1021, 1873415, 51246982>>,
      <<0, 1021, 1219540, 35888449>>, <<0, 1021, 583913, 43893604>>,
      <<0, 1020, 67040267, 43230662>>, <<0, 1020, 65837112, 7714772>>,
      <<0, 1020, 64665759, 6440780>>, <<0, 1020, 63524831, 53260335>>,
      <<0, 1020, 62413035, 29575041>>, <<0, 1020, 61329151, 7926784>>,
      <<0, 1020, 60272030, 9147627>>, <<0, 1020, 59240588, 61532645>>,
      <<0, 1020, 58233804, 21685319>>, <<0, 1020, 57250709, 26380638>> >>,
    <<
      <<0, 1023, 57824265, 53362043>>, <<0, 1023, 21232199, 18321673>>,
      <<0, 1023, 5021312, 7914552>>, <<0, 1022, 57824265, 53362043>>,
      <<0, 1022, 44634724, 23186759>>, <<0, 1022, 34898609, 21632208>>,
      <<0, 1022, 27331705, 8646263>>, <<0, 1022, 21232199, 18321673>>,
      <<0, 1022, 16179889, 13205074>>, <<0, 1022, 11905785, 4914243>>,
      <<0, 1022, 8228647, 59974638>>, <<0, 1022, 5021312, 7914552>>,
      <<0, 1022, 2191567, 41097823>>, <<0, 1021, 66450269, 46992207>>,
      <<0, 1021, 61921517, 41808114>>, <<0, 1021, 57824265, 53362043>>,
      <<0, 1021, 54094074, 59757376>>, <<0, 1021, 50679220, 24428897>>,
      <<0, 1021, 47537638, 42064360>>, <<0, 1021, 44634724, 23186759>>,
      <<0, 1021, 41941712, 1202170>>, <<0, 1021, 39434467, 5066935>>,
      <<0, 1021, 37092569, 28334304>>, <<0, 1021, 34898609, 21632208>>,
      <<0, 1021, 32837639, 56111407>>, <<0, 1021, 30896746, 17755175>>,
      <<0, 1021, 29064704, 10552735>>, <<0, 1021, 27331705, 8646263>>,
      <<0, 1021, 25689135, 9886232>>, <<0, 1021, 24129393, 55344943>>,
      <<0, 1021, 22645746, 2686861>>, <<0, 1021, 21232199, 18321673>>,
      <<0, 1021, 19883401, 36493741>>, <<0, 1021, 18594555, 66382676>>,
      <<0, 1021, 17361348, 64581622>>, <<0, 1021, 16179889, 13205074>>,
      <<0, 1021, 15046656, 5157309>>, <<0, 1021, 13958455, 29980022>>,
      <<0, 1021, 12912381, 46490261>>, <<0, 1021, 11905785, 4914243>>,
      <<0, 1021, 10936243, 30769971>>, <<0, 1021, 10001537, 53322414>>,
      <<0, 1021, 9099630, 48570466>>, <<0, 1021, 8228647, 59974638>>,
      <<0, 1021, 7386861, 37827461>>, <<0, 1021, 6572676, 12227644>>,
      <<0, 1021, 5784615, 44392741>>, <<0, 1021, 5021312, 7914552>>,
      <<0, 1021, 4281495, 59253538>>, <<0, 1021, 3563986, 41500884>>,
      <<0, 1021, 2867685, 26506495>>, <<0, 1021, 2191567, 41097823>>,
      <<0, 1021, 1534676, 44167685>>, <<0, 1021, 896118, 14421472>>, <<0, 1021, 275055, 9395070>>,
      <<0, 1020, 66450269, 46992207>>, <<0, 1020, 65273514, 20567072>>,
      <<0, 1020, 64127324, 64103841>>, <<0, 1020, 63010400, 60911941>>,
      <<0, 1020, 61921517, 41808114>>, <<0, 1020, 60859521, 7636103>>,
      <<0, 1020, 59823322, 53964196>>, <<0, 1020, 58811894, 56267593>>,
      <<0, 1020, 57824265, 53362043>> >>,
    <<
      <<0, 1023, 58377669, 49884744>>, <<0, 1023, 21623514, 64257453>>,
      <<0, 1023, 5340820, 2442143>>, <<0, 1022, 58377669, 49884744>>,
      <<0, 1022, 45129703, 59349221>>, <<0, 1022, 35350461, 50593999>>,
      <<0, 1022, 27750039, 12892464>>, <<0, 1022, 21623514, 64257453>>,
      <<0, 1022, 16548825, 10886875>>, <<0, 1022, 12255788, 30984586>>,
      <<0, 1022, 8562363, 2061253>>, <<0, 1022, 5340820, 2442143>>, <<0, 1022, 2498540, 59797680>>,
      <<0, 1021, 67041883, 27254402>>, <<0, 1021, 62493070, 51204121>>,
      <<0, 1021, 58377669, 49884744>>, <<0, 1021, 54630955, 38945691>>,
      <<0, 1021, 51200974, 40937361>>, <<0, 1021, 48045476, 61633183>>,
      <<0, 1021, 45129703, 59349221>>, <<0, 1021, 42424762, 39325648>>,
      <<0, 1021, 39906411, 36792489>>, <<0, 1021, 37554140, 14910518>>,
      <<0, 1021, 35350461, 50593999>>, <<0, 1021, 33280362, 66751341>>,
      <<0, 1021, 31330872, 2585377>>, <<0, 1021, 29490714, 47995433>>,
      <<0, 1021, 27750039, 12892464>>, <<0, 1021, 26100193, 18826899>>,
      <<0, 1021, 24533542, 62130357>>, <<0, 1021, 23043323, 11614067>>,
      <<0, 1021, 21623514, 64257453>>, <<0, 1021, 20268742, 39740880>>,
      <<0, 1021, 18974187, 64805851>>, <<0, 1021, 17735518, 21706651>>,
      <<0, 1021, 16548825, 10886875>>, <<0, 1021, 15410572, 18217303>>,
      <<0, 1021, 14317551, 23251370>>, <<0, 1021, 13266843, 60591493>>,
      <<0, 1021, 12255788, 30984586>>, <<0, 1021, 11281952, 11021693>>,
      <<0, 1021, 10343106, 8517066>>, <<0, 1021, 9437203, 64922081>>,
      <<0, 1021, 8562363, 2061253>>, <<0, 1021, 7716847, 61935768>>, <<0, 1021, 6899056, 1668500>>,
      <<0, 1021, 6107504, 47666792>>, <<0, 1021, 5340820, 2442143>>,
      <<0, 1021, 4597726, 47679529>>, <<0, 1021, 3877039, 11140644>>,
      <<0, 1021, 3177653, 40654783>>, <<0, 1021, 2498540, 59797680>>,
      <<0, 1021, 1838740, 11529695>>, <<0, 1021, 1197353, 11359711>>, <<0, 1021, 573539, 2187707>>,
      <<0, 1020, 67041883, 27254402>>, <<0, 1020, 65859915, 30547370>>,
      <<0, 1020, 64708648, 63226891>>, <<0, 1020, 63586777, 24590793>>,
      <<0, 1020, 62493070, 51204121>>, <<0, 1020, 61426370, 2196554>>,
      <<0, 1020, 60385581, 52193489>>, <<0, 1020, 59369673, 39559574>>,
      <<0, 1020, 58377669, 49884744>> >>,
    <<
      <<0, 1023, 58912229, 16966308>>, <<0, 1023, 22001505, 41044429>>,
      <<0, 1023, 5649448, 7589021>>, <<0, 1022, 58912229, 16966308>>,
      <<0, 1022, 45607828, 29853793>>, <<0, 1022, 35786927, 51385242>>,
      <<0, 1022, 28154128, 13334252>>, <<0, 1022, 22001505, 41044429>>,
      <<0, 1022, 16905198, 11310872>>, <<0, 1022, 12593873, 38968526>>,
      <<0, 1022, 8884714, 36482633>>, <<0, 1022, 5649448, 7589021>>,
      <<0, 1022, 2795061, 10459310>>, <<0, 1022, 252243, 52332767>>,
      <<0, 1021, 63045161, 30226097>>, <<0, 1021, 58912229, 16966308>>,
      <<0, 1021, 55149554, 32167733>>, <<0, 1021, 51704962, 9986663>>,
      <<0, 1021, 48536022, 24633160>>, <<0, 1021, 45607828, 29853793>>,
      <<0, 1021, 42891364, 25464628>>, <<0, 1021, 40362285, 28834777>>,
      <<0, 1021, 37999993, 45216143>>, <<0, 1021, 35786927, 51385242>>,
      <<0, 1021, 33708010, 40416592>>, <<0, 1021, 31750215, 1243201>>,
      <<0, 1021, 29902218, 54857937>>, <<0, 1021, 28154128, 13334252>>,
      <<0, 1021, 26497254, 7791009>>, <<0, 1021, 24923929, 66753664>>,
      <<0, 1021, 23427362, 4138385>>, <<0, 1021, 22001505, 41044429>>,
      <<0, 1021, 20640962, 3872158>>, <<0, 1021, 19340892, 51263227>>,
      <<0, 1021, 18096946, 34797719>>, <<0, 1021, 16905198, 11310872>>,
      <<0, 1021, 15762096, 29494942>>, <<0, 1021, 14664419, 24138907>>,
      <<0, 1021, 13609236, 824746>>, <<0, 1021, 12593873, 38968526>>,
      <<0, 1021, 11615888, 56534486>>, <<0, 1021, 10673043, 28130679>>,
      <<0, 1021, 9763282, 14175150>>, <<0, 1021, 8884714, 36482633>>,
      <<0, 1021, 8035597, 42272150>>, <<0, 1021, 7214322, 1603673>>,
      <<0, 1021, 6419398, 52580501>>, <<0, 1021, 5649448, 7589021>>,
      <<0, 1021, 4903189, 19282014>>, <<0, 1021, 4179431, 46257316>>,
      <<0, 1021, 3477066, 55012014>>, <<0, 1021, 2795061, 10459310>>,
      <<0, 1021, 2132449, 50636957>>, <<0, 1021, 1488330, 34256828>>,
      <<0, 1021, 861858, 66492380>>, <<0, 1021, 252243, 52332767>>,
      <<0, 1020, 66426348, 36833011>>, <<0, 1020, 65270177, 51061761>>,
      <<0, 1020, 64143527, 8695798>>, <<0, 1020, 63045161, 30226097>>,
      <<0, 1020, 61973916, 46076036>>, <<0, 1020, 60928694, 52511718>>,
      <<0, 1020, 59908458, 62518245>>, <<0, 1020, 58912229, 16966308>> >>,
    <<
      <<0, 1023, 59429131, 6967710>>, <<0, 1023, 22367010, 27894886>>,
      <<0, 1023, 5947881, 35964315>>, <<0, 1022, 59429131, 6967710>>,
      <<0, 1022, 46070159, 34593080>>, <<0, 1022, 36208976, 24140673>>,
      <<0, 1022, 28544869, 18127733>>, <<0, 1022, 22367010, 27894886>>,
      <<0, 1022, 17249799, 27014761>>, <<0, 1022, 12920791, 1064719>>,
      <<0, 1022, 9196418, 5896096>>, <<0, 1022, 5947881, 35964315>>,
      <<0, 1022, 3081786, 47918407>>, <<0, 1022, 528539, 29602669>>,
      <<0, 1021, 63579015, 25941558>>, <<0, 1021, 59429131, 6967710>>,
      <<0, 1021, 55651022, 62639713>>, <<0, 1021, 52192301, 59562803>>,
      <<0, 1021, 49010364, 2484106>>, <<0, 1021, 46070159, 34593080>>,
      <<0, 1021, 43342553, 20468057>>, <<0, 1021, 40803100, 54314864>>,
      <<0, 1021, 38431119, 41615945>>, <<0, 1021, 36208976, 24140673>>,
      <<0, 1021, 34121532, 5574168>>, <<0, 1021, 32155706, 12857253>>,
      <<0, 1021, 30300130, 3213177>>, <<0, 1021, 28544869, 18127733>>,
      <<0, 1021, 26881199, 11556491>>, <<0, 1021, 25301421, 49199235>>,
      <<0, 1021, 23798715, 21068266>>, <<0, 1021, 22367010, 27894886>>,
      <<0, 1021, 21000886, 20671615>>, <<0, 1021, 19695484, 34111714>>,
      <<0, 1021, 18446435, 64253546>>, <<0, 1021, 17249799, 27014761>>,
      <<0, 1021, 16102009, 193116>>, <<0, 1021, 14999829, 38327290>>,
      <<0, 1021, 13940318, 11320720>>, <<0, 1021, 12920791, 1064719>>,
      <<0, 1021, 11938794, 58305972>>, <<0, 1021, 10992082, 11276245>>,
      <<0, 1021, 10078589, 25793357>>, <<0, 1021, 9196418, 5896096>>,
      <<0, 1021, 8343818, 23062053>>, <<0, 1021, 7519174, 6986581>>,
      <<0, 1021, 6720990, 21469560>>, <<0, 1021, 5947881, 35964315>>,
      <<0, 1021, 5198561, 51916451>>, <<0, 1021, 4471835, 35737682>>,
      <<0, 1021, 3766589, 51451634>>, <<0, 1021, 3081786, 47918407>>,
      <<0, 1021, 2416457, 31782254>>, <<0, 1021, 1769696, 16093782>>,
      <<0, 1021, 1140655, 7804736>>, <<0, 1021, 528539, 29602669>>, <<0, 1020, 66974071, 8759420>>,
      <<0, 1020, 65813158, 4458476>>, <<0, 1020, 64681886, 16247891>>,
      <<0, 1020, 63579015, 25941558>>, <<0, 1020, 62503376, 46202076>>,
      <<0, 1020, 61453867, 39479075>>, <<0, 1020, 60429447, 1800690>>,
      <<0, 1020, 59429131, 6967710>> >>,
    <<
      <<0, 1023, 59929455, 16259823>>, <<0, 1023, 22720793, 453985>>,
      <<0, 1023, 6236743, 54487961>>, <<0, 1022, 59929455, 16259823>>,
      <<0, 1022, 46517663, 1961742>>, <<0, 1022, 36617489, 20678585>>,
      <<0, 1022, 28923078, 51591980>>, <<0, 1022, 22720793, 453985>>,
      <<0, 1022, 17583348, 55579125>>, <<0, 1022, 13237223, 52683588>>,
      <<0, 1022, 9498124, 60081507>>, <<0, 1022, 6236743, 54487961>>,
      <<0, 1022, 3359316, 41058659>>, <<0, 1022, 795973, 63238230>>,
      <<0, 1021, 64095747, 62734643>>, <<0, 1021, 59929455, 16259823>>,
      <<0, 1021, 56136408, 43216517>>, <<0, 1021, 52664012, 605313>>,
      <<0, 1021, 49469492, 64062853>>, <<0, 1021, 46517663, 1961742>>,
      <<0, 1021, 43779272, 1121806>>, <<0, 1021, 41229778, 44847246>>,
      <<0, 1021, 38848418, 53580189>>, <<0, 1021, 36617489, 20678585>>,
      <<0, 1021, 34521791, 26429632>>, <<0, 1021, 32548192, 49458900>>,
      <<0, 1021, 30685279, 50280993>>, <<0, 1021, 28923078, 51591980>>,
      <<0, 1021, 27252830, 41108571>>, <<0, 1021, 25666806, 55167510>>,
      <<0, 1021, 24158158, 52743645>>, <<0, 1021, 22720793, 453985>>,
      <<0, 1021, 21349267, 21541814>>, <<0, 1021, 20038704, 2398506>>,
      <<0, 1021, 18784716, 54824247>>, <<0, 1021, 17583348, 55579125>>,
      <<0, 1021, 16431020, 8699242>>, <<0, 1021, 15324482, 49807614>>,
      <<0, 1021, 14260782, 6112064>>, <<0, 1021, 13237223, 52683588>>,
      <<0, 1021, 12251344, 59075707>>, <<0, 1021, 11300888, 62448574>>,
      <<0, 1021, 10383784, 16617842>>, <<0, 1021, 9498124, 60081507>>,
      <<0, 1021, 8642154, 1307827>>, <<0, 1021, 7814249, 12271147>>,
      <<0, 1021, 7012909, 28503411>>, <<0, 1021, 6236743, 54487961>>,
      <<0, 1021, 5484461, 18878308>>, <<0, 1021, 4754861, 40628506>>,
      <<0, 1021, 4046827, 22639076>>, <<0, 1021, 3359316, 41058659>>,
      <<0, 1021, 2691356, 46765370>>, <<0, 1021, 2042038, 13785723>>,
      <<0, 1021, 1410509, 59630978>>, <<0, 1021, 795973, 63238230>>, <<0, 1021, 197681, 51635498>>,
      <<0, 1020, 66338724, 19434611>>, <<0, 1020, 65202979, 32205817>>,
      <<0, 1020, 64095747, 62734643>>, <<0, 1020, 63015856, 14872411>>,
      <<0, 1020, 61962197, 28272484>>, <<0, 1020, 60933726, 24050064>>,
      <<0, 1020, 59929455, 16259823>> >>,
    <<
      <<0, 1023, 60414187, 7762533>>, <<0, 1023, 23063550, 13521733>>,
      <<0, 1023, 6516603, 59694336>>, <<0, 1022, 60414187, 7762533>>,
      <<0, 1022, 46951220, 26650815>>, <<0, 1022, 37013271, 15127467>>,
      <<0, 1022, 29289501, 41803889>>, <<0, 1022, 23063550, 13521733>>,
      <<0, 1022, 17906503, 27544644>>, <<0, 1022, 13543795, 9389818>>,
      <<0, 1022, 9790429, 14300197>>, <<0, 1022, 6516603, 59694336>>,
      <<0, 1022, 3628197, 32017807>>, <<0, 1022, 1055074, 1830159>>,
      <<0, 1021, 64596376, 57777153>>, <<0, 1021, 60414187, 7762533>>,
      <<0, 1021, 56606667, 42648877>>, <<0, 1021, 53121021, 40398599>>,
      <<0, 1021, 49914313, 28753402>>, <<0, 1021, 46951220, 26650815>>,
      <<0, 1021, 44202380, 45880528>>, <<0, 1021, 41643159, 26766809>>,
      <<0, 1021, 39252713, 8631404>>, <<0, 1021, 37013271, 15127467>>,
      <<0, 1021, 34909576, 59897118>>, <<0, 1021, 32928447, 47200197>>,
      <<0, 1021, 31058426, 34853205>>, <<0, 1021, 29289501, 41803889>>,
      <<0, 1021, 27612880, 27459324>>, <<0, 1021, 26020804, 62450365>>,
      <<0, 1021, 24506400, 29797920>>, <<0, 1021, 23063550, 13521733>>,
      <<0, 1021, 21686791, 18397118>>, <<0, 1021, 20371227, 23996350>>,
      <<0, 1021, 19112455, 25574987>>, <<0, 1021, 17906503, 27544644>>,
      <<0, 1021, 16749777, 56775599>>, <<0, 1021, 15639018, 21183580>>,
      <<0, 1021, 14571258, 65161127>>, <<0, 1021, 13543795, 9389818>>,
      <<0, 1021, 12554154, 32278640>>, <<0, 1021, 11600071, 62957531>>,
      <<0, 1021, 10679467, 61630488>>, <<0, 1021, 9790429, 14300197>>,
      <<0, 1021, 8931192, 17767210>>, <<0, 1021, 8100128, 29886378>>,
      <<0, 1021, 7295731, 4502438>>, <<0, 1021, 6516603, 59694336>>,
      <<0, 1021, 5761450, 61957617>>, <<0, 1021, 5029067, 24239159>>,
      <<0, 1021, 4318331, 33064796>>, <<0, 1021, 3628197, 32017807>>,
      <<0, 1021, 2957688, 58440018>>, <<0, 1021, 2305892, 54824220>>,
      <<0, 1021, 1671954, 54926093>>, <<0, 1021, 1055074, 1830159>>, <<0, 1021, 454498, 66420742>>,
      <<0, 1020, 66847911, 39936104>>, <<0, 1020, 65707833, 13261309>>,
      <<0, 1020, 64596376, 57777153>>, <<0, 1020, 63512364, 45297782>>,
      <<0, 1020, 62454685, 33362217>>, <<0, 1020, 61422290, 10999276>>,
      <<0, 1020, 60414187, 7762533>> >>,
    <<
      <<0, 1023, 60884228, 19334520>>, <<0, 1023, 23395919, 33685691>>,
      <<0, 1023, 6787982, 19256961>>, <<0, 1022, 60884228, 19334520>>,
      <<0, 1022, 47371638, 177460>>, <<0, 1022, 37397058, 15811258>>,
      <<0, 1022, 29644819, 23554631>>, <<0, 1022, 23395919, 33685691>>,
      <<0, 1022, 18219864, 12889680>>, <<0, 1022, 13841075, 18771018>>,
      <<0, 1022, 10073874, 47305423>>, <<0, 1022, 6787982, 19256961>>,
      <<0, 1022, 3888929, 27359391>>, <<0, 1022, 1306321, 40417115>>,
      <<0, 1021, 65081833, 19889753>>, <<0, 1021, 60884228, 19334520>>,
      <<0, 1021, 57062674, 37159260>>, <<0, 1021, 53564180, 44914255>>,
      <<0, 1021, 50345652, 53053197>>, <<0, 1021, 47371638, 177460>>,
      <<0, 1021, 44612666, 17150699>>, <<0, 1021, 42044011, 57550985>>,
      <<0, 1021, 39644754, 38066210>>, <<0, 1021, 37397058, 15811258>>,
      <<0, 1021, 35285609, 55732935>>, <<0, 1021, 33297178, 22529362>>,
      <<0, 1021, 31420264, 25675947>>, <<0, 1021, 29644819, 23554631>>,
      <<0, 1021, 27962018, 15238168>>, <<0, 1021, 26364074, 31410224>>,
      <<0, 1021, 24844087, 66503890>>, <<0, 1021, 23395919, 33685691>>,
      <<0, 1021, 22014085, 62823275>>, <<0, 1021, 20693672, 63196384>>,
      <<0, 1021, 19430261, 14664798>>, <<0, 1021, 18219864, 12889680>>,
      <<0, 1021, 17058875, 1139748>>, <<0, 1021, 15944021, 20373587>>,
      <<0, 1021, 14872326, 18226412>>, <<0, 1021, 13841075, 18771018>>,
      <<0, 1021, 12847786, 58623397>>, <<0, 1021, 11890187, 43503206>>,
      <<0, 1021, 10966190, 23188908>>, <<0, 1021, 10073874, 47305423>>,
      <<0, 1021, 9211470, 44857549>>, <<0, 1021, 8377343, 40606968>>,
      <<0, 1021, 7569981, 18359356>>, <<0, 1021, 6787982, 19256961>>,
      <<0, 1021, 6030045, 58983200>>, <<0, 1021, 5294962, 53792099>>,
      <<0, 1021, 4581607, 14071252>>, <<0, 1021, 3888929, 27359391>>,
      <<0, 1021, 3215949, 23684315>>, <<0, 1021, 2561750, 55280081>>,
      <<0, 1021, 1925476, 11644013>>, <<0, 1021, 1306321, 40417115>>,
      <<0, 1021, 703532, 59496297>>, <<0, 1021, 116401, 34637990>>,
      <<0, 1020, 66197386, 25800249>>, <<0, 1020, 65081833, 19889753>>,
      <<0, 1020, 63993825, 34645571>>, <<0, 1020, 62932247, 54082586>>,
      <<0, 1020, 61896047, 9036553>>, <<0, 1020, 60884228, 19334520>> >>,
    <<
      <<0, 1023, 61340405, 41201774>>, <<0, 1023, 23718485, 39089988>>,
      <<0, 1023, 7051356, 26093760>>, <<0, 1022, 61340405, 41201774>>,
      <<0, 1022, 47779655, 27299883>>, <<0, 1022, 37769525, 31034985>>,
      <<0, 1022, 29989656, 66848263>>, <<0, 1022, 23718485, 39089988>>,
      <<0, 1022, 18523982, 27467849>>, <<0, 1022, 14129587, 10269704>>,
      <<0, 1022, 10348959, 65945871>>, <<0, 1022, 7051356, 26093760>>,
      <<0, 1022, 4141971, 4016318>>, <<0, 1022, 1550158, 42918703>>,
      <<0, 1021, 65552971, 14269157>>, <<0, 1021, 61340405, 41201774>>,
      <<0, 1021, 57505231, 37924790>>, <<0, 1021, 53994268, 52119984>>,
      <<0, 1021, 50764269, 54659625>>, <<0, 1021, 47779655, 27299883>>,
      <<0, 1021, 45010850, 31544190>>, <<0, 1021, 42433041, 12629887>>,
      <<0, 1021, 40025232, 50898824>>, <<0, 1021, 37769525, 31034985>>,
      <<0, 1021, 35650551, 46383192>>, <<0, 1021, 33655033, 18256642>>,
      <<0, 1021, 31771429, 57161301>>, <<0, 1021, 29989656, 66848263>>,
      <<0, 1021, 28300858, 15987627>>, <<0, 1021, 26697219, 19025422>>,
      <<0, 1021, 25171815, 30637316>>, <<0, 1021, 23718485, 39089988>>,
      <<0, 1021, 22331727, 3655716>>, <<0, 1021, 21006608, 370927>>,
      <<0, 1021, 19738693, 25823696>>, <<0, 1021, 18523982, 27467849>>,
      <<0, 1021, 17358855, 25406579>>, <<0, 1021, 16240028, 16101869>>,
      <<0, 1021, 15164513, 40505400>>, <<0, 1021, 14129587, 10269704>>,
      <<0, 1021, 13132758, 39582166>>, <<0, 1021, 12171746, 27277629>>,
      <<0, 1021, 11244455, 60772527>>, <<0, 1021, 10348959, 65945871>>,
      <<0, 1021, 9483482, 18199922>>, <<0, 1021, 8646382, 21085392>>,
      <<0, 1021, 7836142, 32252575>>, <<0, 1021, 7051356, 26093760>>,
      <<0, 1021, 6290718, 42717832>>, <<0, 1021, 5553015, 44693763>>,
      <<0, 1021, 4837117, 41563589>>, <<0, 1021, 4141971, 4016318>>,
      <<0, 1021, 3466592, 30325144>>, <<0, 1021, 2810062, 20689990>>,
      <<0, 1021, 2171519, 62128413>>, <<0, 1021, 1550158, 42918703>>,
      <<0, 1021, 945221, 36106022>>, <<0, 1021, 355997, 39311054>>,
      <<0, 1020, 66672500, 14668890>>, <<0, 1020, 65552971, 14269157>>,
      <<0, 1020, 64461085, 46187029>>, <<0, 1020, 63395724, 29019968>>,
      <<0, 1020, 62355830, 44391774>>, <<0, 1020, 61340405, 41201774>> >>,
    <<
      <<0, 1023, 61783479, 13259227>>, <<0, 1023, 24031785, 61608024>>,
      <<0, 1023, 7307165, 2791945>>, <<0, 1022, 61783479, 13259227>>,
      <<0, 1022, 48175952, 31380555>>, <<0, 1022, 38131293, 35472765>>,
      <<0, 1022, 30324589, 9609584>>, <<0, 1022, 24031785, 61608024>>,
      <<0, 1022, 18819364, 53578727>>, <<0, 1022, 14409811, 33023686>>,
      <<0, 1022, 10616143, 27283817>>, <<0, 1022, 7307165, 2791945>>,
      <<0, 1022, 4387744, 4269870>>, <<0, 1022, 1786991, 28989296>>,
      <<0, 1021, 66010575, 43090512>>, <<0, 1021, 61783479, 13259227>>,
      <<0, 1021, 57935076, 5320952>>, <<0, 1021, 54412002, 37404789>>,
      <<0, 1021, 51170862, 1333759>>, <<0, 1021, 48175952, 31380555>>,
      <<0, 1021, 45397596, 53727064>>, <<0, 1021, 42810895, 40930179>>,
      <<0, 1021, 40394781, 45174020>>, <<0, 1021, 38131293, 35472765>>,
      <<0, 1021, 36005010, 37450928>>, <<0, 1021, 34002608, 52831689>>,
      <<0, 1021, 32112508, 3722593>>, <<0, 1021, 30324589, 9609584>>,
      <<0, 1021, 28629965, 2283542>>, <<0, 1021, 27020794, 32123757>>,
      <<0, 1021, 25490128, 61455533>>, <<0, 1021, 24031785, 61608024>>,
      <<0, 1021, 22640243, 60256161>>, <<0, 1021, 21310553, 65521680>>,
      <<0, 1021, 20038265, 53974914>>, <<0, 1021, 18819364, 53578727>>,
      <<0, 1021, 17650218, 51833910>>, <<0, 1021, 16527532, 23188813>>,
      <<0, 1021, 15448307, 55254708>>, <<0, 1021, 14409811, 33023686>>,
      <<0, 1021, 13409544, 31085637>>, <<0, 1021, 12445217, 24118904>>,
      <<0, 1021, 11514728, 17300678>>, <<0, 1021, 10616143, 27283817>>,
      <<0, 1021, 9747680, 20920370>>, <<0, 1021, 8907692, 57563093>>,
      <<0, 1021, 8094658, 11987899>>, <<0, 1021, 7307165, 2791945>>,
      <<0, 1021, 6543903, 36337643>>, <<0, 1021, 5803655, 62708192>>,
      <<0, 1021, 5085288, 31226330>>, <<0, 1021, 4387744, 4269870>>,
      <<0, 1021, 3710035, 53764205>>, <<0, 1021, 3051241, 1278889>>, <<0, 1021, 2410496, 3026449>>,
      <<0, 1021, 1786991, 28989296>>, <<0, 1021, 1179967, 44107285>>,
      <<0, 1021, 588711, 15624307>>, <<0, 1021, 12551, 11988130>>, <<0, 1020, 66010575, 43090512>>,
      <<0, 1020, 64914923, 51141196>>, <<0, 1020, 63845887, 43188329>>,
      <<0, 1020, 62802406, 57552021>>, <<0, 1020, 61783479, 13259227>> >>,
    <<
      <<0, 1023, 62214149, 21905052>>, <<0, 1023, 24336315, 46075823>>,
      <<0, 1023, 7555812, 37340499>>, <<0, 1022, 62214149, 21905052>>,
      <<0, 1022, 48561155, 36318393>>, <<0, 1022, 38482934, 14514648>>,
      <<0, 1022, 30650145, 10721594>>, <<0, 1022, 24336315, 46075823>>,
      <<0, 1022, 19106478, 14603368>>, <<0, 1022, 14682191, 13257574>>,
      <<0, 1022, 10875847, 17836749>>, <<0, 1022, 7555812, 37340499>>,
      <<0, 1022, 4626636, 58290622>>, <<0, 1022, 2017194, 20061999>>,
      <<0, 1021, 66455369, 56273888>>, <<0, 1021, 62214149, 21905052>>,
      <<0, 1021, 58352887, 31864105>>, <<0, 1021, 54818042, 16695189>>,
      <<0, 1021, 51566072, 2316854>>, <<0, 1021, 48561155, 36318393>>,
      <<0, 1021, 45773516, 34104852>>, <<0, 1021, 43178172, 22134361>>,
      <<0, 1021, 40753985, 26266893>>, <<0, 1021, 38482934, 14514648>>,
      <<0, 1021, 36349546, 44367587>>, <<0, 1021, 34340454, 15569133>>,
      <<0, 1021, 32444038, 5048089>>, <<0, 1021, 30650145, 10721594>>,
      <<0, 1021, 28949858, 52002182>>, <<0, 1021, 27335311, 31623160>>,
      <<0, 1021, 25799531, 31541873>>, <<0, 1021, 24336315, 46075823>>,
      <<0, 1021, 22940124, 5634206>>, <<0, 1021, 21605991, 16601459>>,
      <<0, 1021, 20329451, 64270356>>, <<0, 1021, 19106478, 14603368>>,
      <<0, 1021, 17933425, 47281992>>, <<0, 1021, 16806988, 1804662>>,
      <<0, 1021, 15724157, 31801234>>, <<0, 1021, 14682191, 13257574>>,
      <<0, 1021, 13678581, 64412670>>, <<0, 1021, 12711032, 49246479>>,
      <<0, 1021, 11777434, 38488816>>, <<0, 1021, 10875847, 17836749>>,
      <<0, 1021, 10004482, 24212262>>, <<0, 1021, 9161688, 16291838>>,
      <<0, 1021, 8345936, 64247075>>, <<0, 1021, 7555812, 37340499>>,
      <<0, 1021, 6790000, 50865095>>, <<0, 1021, 6047279, 50282431>>,
      <<0, 1021, 5326511, 66235424>>, <<0, 1021, 4626636, 58290622>>,
      <<0, 1021, 3946664, 11290289>>, <<0, 1021, 3285668, 9676432>>,
      <<0, 1021, 2642782, 15998653>>, <<0, 1021, 2017194, 20061999>>,
      <<0, 1021, 1408142, 17823708>>, <<0, 1021, 814910, 17867427>>, <<0, 1021, 236825, 5294616>>,
      <<0, 1020, 66455369, 56273888>>, <<0, 1020, 65356057, 2595210>>,
      <<0, 1020, 64283448, 62546261>>, <<0, 1020, 63236481, 36665079>>,
      <<0, 1020, 62214149, 21905052>> >>,
    <<
      <<0, 1023, 62633062, 35676083>>, <<0, 1023, 24632532, 3671651>>,
      <<0, 1023, 7797672, 13972643>>, <<0, 1022, 62633062, 35676083>>,
      <<0, 1022, 48935842, 60571785>>, <<0, 1022, 38824975, 27919967>>,
      <<0, 1022, 30966813, 52173621>>, <<0, 1022, 24632532, 3671651>>,
      <<0, 1022, 19385753, 46153677>>, <<0, 1022, 14947135, 11517673>>,
      <<0, 1022, 11128461, 29079168>>, <<0, 1022, 7797672, 13972643>>,
      <<0, 1022, 4859008, 7095161>>, <<0, 1022, 2241112, 55425206>>,
      <<0, 1021, 66888021, 36002767>>, <<0, 1021, 62633062, 35676083>>,
      <<0, 1021, 58759292, 65703136>>, <<0, 1021, 55212997, 27265156>>,
      <<0, 1021, 51950493, 10477299>>, <<0, 1021, 48935842, 60571785>>,
      <<0, 1021, 46139173, 62513830>>, <<0, 1021, 43535422, 47753946>>,
      <<0, 1021, 41103383, 10569850>>, <<0, 1021, 38824975, 27919967>>,
      <<0, 1021, 36684677, 15119094>>, <<0, 1021, 34669076, 52818049>>,
      <<0, 1021, 32766517, 40999813>>, <<0, 1021, 30966813, 52173621>>,
      <<0, 1021, 29261019, 46447515>>, <<0, 1021, 27641242, 28234361>>,
      <<0, 1021, 26100487, 40331451>>, <<0, 1021, 24632532, 3671651>>,
      <<0, 1021, 23231817, 53633381>>, <<0, 1021, 21893363, 22504371>>,
      <<0, 1021, 20612688, 65759658>>, <<0, 1021, 19385753, 46153677>>,
      <<0, 1021, 18208901, 22238155>>, <<0, 1021, 17078814, 54278074>>,
      <<0, 1021, 15992476, 44727460>>, <<0, 1021, 14947135, 11517673>>,
      <<0, 1021, 13940274, 64724479>>, <<0, 1021, 12969591, 38752367>>,
      <<0, 1021, 12032969, 15641500>>, <<0, 1021, 11128461, 29079168>>,
      <<0, 1021, 10254273, 62750811>>, <<0, 1021, 9408749, 51841940>>,
      <<0, 1021, 8590356, 2806356>>, <<0, 1021, 7797672, 13972643>>,
      <<0, 1021, 7029379, 49147275>>, <<0, 1021, 6284252, 56624412>>,
      <<0, 1021, 5561150, 21089519>>, <<0, 1021, 4859008, 7095161>>,
      <<0, 1021, 4176832, 52659527>>, <<0, 1021, 3513695, 40982933>>,
      <<0, 1021, 2868727, 14674343>>, <<0, 1021, 2241112, 55425206>>,
      <<0, 1021, 1630087, 60641713>>, <<0, 1021, 1034934, 17505903>>,
      <<0, 1021, 454976, 33206815>>, <<0, 1020, 66888021, 36002767>>,
      <<0, 1020, 65785147, 50783162>>, <<0, 1020, 64709065, 11684726>>,
      <<0, 1020, 63658706, 24825585>>, <<0, 1020, 62633062, 35676083>> >>,
    <<
      <<0, 1023, 63040816, 60689712>>, <<0, 1023, 24920857, 62862833>>,
      <<0, 1023, 8033089, 20472817>>, <<0, 1022, 63040816, 60689712>>,
      <<0, 1022, 49300549, 33608834>>, <<0, 1022, 39157905, 31355545>>,
      <<0, 1022, 31275047, 7426356>>, <<0, 1022, 24920857, 62862833>>,
      <<0, 1022, 19657589, 62829429>>, <<0, 1022, 15205021, 45658995>>,
      <<0, 1022, 11374346, 38364340>>, <<0, 1022, 8033089, 20472817>>,
      <<0, 1022, 5085189, 35989969>>, <<0, 1022, 2459066, 47379069>>,
      <<0, 1022, 100142, 14824313>>, <<0, 1021, 63040816, 60689712>>,
      <<0, 1021, 59154872, 55409140>>, <<0, 1021, 55597431, 61447489>>,
      <<0, 1021, 52324674, 15486108>>, <<0, 1021, 49300549, 33608834>>,
      <<0, 1021, 46495091, 8545446>>, <<0, 1021, 43883156, 54294006>>,
      <<0, 1021, 41443473, 54622644>>, <<0, 1021, 39157905, 31355545>>,
      <<0, 1021, 37010880, 48551770>>, <<0, 1021, 34988945, 42527822>>,
      <<0, 1021, 33080407, 4927468>>, <<0, 1021, 31275047, 7426356>>,
      <<0, 1021, 29563892, 2461054>>, <<0, 1021, 27939024, 7463429>>,
      <<0, 1021, 26393426, 66441441>>, <<0, 1021, 24920857, 62862833>>,
      <<0, 1021, 23515741, 33611020>>, <<0, 1021, 22173080, 35391750>>,
      <<0, 1021, 20888381, 17065397>>, <<0, 1021, 19657589, 62829429>>,
      <<0, 1021, 18477038, 64099722>>, <<0, 1021, 17343400, 52618307>>,
      <<0, 1021, 16253648, 32624120>>, <<0, 1021, 15205021, 45658995>>,
      <<0, 1021, 14194997, 6827274>>, <<0, 1021, 13221263, 2694575>>,
      <<0, 1021, 12281697, 4605720>>, <<0, 1021, 11374346, 38364340>>,
      <<0, 1021, 10497411, 44775510>>, <<0, 1021, 9649230, 12206461>>,
      <<0, 1021, 8828264, 26458687>>, <<0, 1021, 8033089, 20472817>>,
      <<0, 1021, 7262382, 15505874>>, <<0, 1021, 6514913, 36868494>>,
      <<0, 1021, 5789538, 29875737>>, <<0, 1021, 5085189, 35989969>>,
      <<0, 1021, 4400870, 17921570>>, <<0, 1021, 3735648, 65642939>>,
      <<0, 1021, 3088653, 38404831>>, <<0, 1021, 2459066, 47379069>>,
      <<0, 1021, 1846121, 30051304>>, <<0, 1021, 1249097, 23456153>>,
      <<0, 1021, 667316, 59441995>>, <<0, 1021, 100142, 14824313>>,
      <<0, 1020, 66202808, 36107051>>, <<0, 1020, 65123344, 2086474>>,
      <<0, 1020, 64069684, 9901809>>, <<0, 1020, 63040816, 60689712>> >>,
    <<
      <<0, 1023, 63437966, 51962355>>, <<0, 1023, 25201685, 20328604>>,
      <<0, 1023, 8262383, 59686241>>, <<0, 1022, 63437966, 51962355>>,
      <<0, 1022, 49655771, 9623278>>, <<0, 1022, 39482176, 65643605>>,
      <<0, 1022, 31575264, 12969842>>, <<0, 1022, 25201685, 20328604>>,
      <<0, 1022, 19922356, 34641570>>, <<0, 1022, 15456201, 20982915>>,
      <<0, 1022, 11613836, 64038606>>, <<0, 1022, 8262383, 59686241>>,
      <<0, 1022, 5305488, 43425185>>, <<0, 1022, 2671352, 16169259>>,
      <<0, 1022, 305229, 35693143>>, <<0, 1021, 63437966, 51962355>>,
      <<0, 1021, 59540164, 53246079>>, <<0, 1021, 55971868, 27104805>>,
      <<0, 1021, 52689123, 63501613>>, <<0, 1021, 49655771, 9623278>>,
      <<0, 1021, 46841751, 64038700>>, <<0, 1021, 44221847, 23900229>>,
      <<0, 1021, 41774719, 47220788>>, <<0, 1021, 39482176, 65643605>>,
      <<0, 1021, 37328600, 41569885>>, <<0, 1021, 35300495, 41874361>>,
      <<0, 1021, 33386133, 12472791>>, <<0, 1021, 31575264, 12969842>>,
      <<0, 1021, 29858887, 37198683>>, <<0, 1021, 28229061, 24686525>>,
      <<0, 1021, 26678747, 59017232>>, <<0, 1021, 25201685, 20328604>>,
      <<0, 1021, 23792281, 11713236>>, <<0, 1021, 22445523, 6074932>>,
      <<0, 1021, 21156903, 38666668>>, <<0, 1021, 19922356, 34641570>>,
      <<0, 1021, 18738203, 6769588>>, <<0, 1021, 17601105, 43573522>>,
      <<0, 1021, 16508027, 66301867>>, <<0, 1021, 15456201, 20982915>>,
      <<0, 1021, 14443094, 44199936>>, <<0, 1021, 13466389, 17558019>>,
      <<0, 1021, 12523956, 14638629>>, <<0, 1021, 11613836, 64038606>>,
      <<0, 1021, 10734226, 6415519>>, <<0, 1021, 9883456, 26624780>>,
      <<0, 1021, 9059985, 29788354>>, <<0, 1021, 8262383, 59686241>>, <<0, 1021, 7489325, 931833>>,
      <<0, 1021, 6739575, 29684656>>, <<0, 1021, 6011986, 58149197>>,
      <<0, 1021, 5305488, 43425185>>, <<0, 1021, 4619081, 12582064>>,
      <<0, 1021, 3951829, 66132025>>, <<0, 1021, 3302860, 18953949>>,
      <<0, 1021, 2671352, 16169259>>, <<0, 1021, 2056536, 39536630>>,
      <<0, 1021, 1457690, 45664927>>, <<0, 1021, 874134, 61875432>>, <<0, 1021, 305229, 35693143>>,
      <<0, 1020, 66609607, 12062988>>, <<0, 1020, 65526848, 47141779>>,
      <<0, 1020, 64469973, 39662744>>, <<0, 1020, 63437966, 51962355>> >>,
    <<
      <<0, 1023, 63825026, 56359611>>, <<0, 1023, 25475378, 6709442>>,
      <<0, 1023, 8485853, 8215283>>, <<0, 1022, 63825026, 56359611>>,
      <<0, 1022, 50001968, 12787801>>, <<0, 1022, 39798210, 13306353>>,
      <<0, 1022, 31867854, 6754055>>, <<0, 1022, 25475378, 6709442>>,
      <<0, 1022, 20180396, 37573074>>, <<0, 1022, 15700999, 39751258>>,
      <<0, 1022, 11847242, 64144445>>, <<0, 1022, 8485853, 8215283>>,
      <<0, 1022, 5520190, 63175138>>, <<0, 1022, 2878244, 36812846>>,
      <<0, 1022, 505106, 32899242>>, <<0, 1021, 63825026, 56359611>>,
      <<0, 1021, 59915668, 14301066>>, <<0, 1021, 56336792, 8945923>>,
      <<0, 1021, 53044314, 41754107>>, <<0, 1021, 50001968, 12787801>>,
      <<0, 1021, 47179605, 45488011>>, <<0, 1021, 44551933, 19401898>>,
      <<0, 1021, 42097550, 7698411>>, <<0, 1021, 39798210, 13306353>>,
      <<0, 1021, 37638248, 45087689>>, <<0, 1021, 35604130, 34926430>>,
      <<0, 1021, 33684092, 10953711>>, <<0, 1021, 31867854, 6754055>>,
      <<0, 1021, 30146388, 37134890>>, <<0, 1021, 28511730, 4911514>>,
      <<0, 1021, 26956820, 2637996>>, <<0, 1021, 25475378, 6709442>>,
      <<0, 1021, 24061795, 14107818>>, <<0, 1021, 22711044, 7041989>>,
      <<0, 1021, 21418603, 63427868>>, <<0, 1021, 20180396, 37573074>>,
      <<0, 1021, 18992732, 15573875>>, <<0, 1021, 17852263, 25827873>>,
      <<0, 1021, 16755944, 56558752>>, <<0, 1021, 15700999, 39751258>>,
      <<0, 1021, 14684889, 11050779>>, <<0, 1021, 13705287, 61781937>>,
      <<0, 1021, 12760060, 43260636>>, <<0, 1021, 11847242, 64144445>>,
      <<0, 1021, 10965024, 8525201>>, <<0, 1021, 10111731, 65067511>>,
      <<0, 1021, 9285819, 33322807>>, <<0, 1021, 8485853, 8215283>>,
      <<0, 1021, 7710502, 13031531>>, <<0, 1021, 6958529, 45632872>>,
      <<0, 1021, 6228783, 58178084>>, <<0, 1021, 5520190, 63175138>>,
      <<0, 1021, 4831748, 23019485>>, <<0, 1021, 4162518, 53610145>>,
      <<0, 1021, 3511624, 64209023>>, <<0, 1021, 2878244, 36812846>>,
      <<0, 1021, 2261606, 1443344>>, <<0, 1021, 1660984, 39358422>>,
      <<0, 1021, 1075698, 42659417>>, <<0, 1021, 505106, 32899242>>,
      <<0, 1020, 67006070, 59380827>>, <<0, 1020, 65920102, 8206975>>,
      <<0, 1020, 64860093, 31375028>>, <<0, 1020, 63825026, 56359611>> >>,
    <<
      <<0, 1023, 64202475, 55346137>>, <<0, 1023, 25742274, 56153468>>,
      <<0, 1023, 8703773, 26538435>>, <<0, 1022, 64202475, 55346137>>,
      <<0, 1022, 50339568, 55422608>>, <<0, 1022, 40106396, 263337>>,
      <<0, 1022, 32153178, 47913915>>, <<0, 1022, 25742274, 56153468>>,
      <<0, 1022, 20432029, 14527803>>, <<0, 1022, 15939719, 19521913>>,
      <<0, 1022, 12074853, 17295227>>, <<0, 1022, 8703773, 26538435>>,
      <<0, 1022, 5729561, 64919160>>, <<0, 1022, 3079999, 34727429>>,
      <<0, 1022, 700020, 20663534>>, <<0, 1021, 64202475, 55346137>>,
      <<0, 1021, 60281847, 34560313>>, <<0, 1021, 56692654, 30132048>>,
      <<0, 1021, 53390685, 37960868>>, <<0, 1021, 50339568, 55422608>>,
      <<0, 1021, 47509070, 10901759>>, <<0, 1021, 44873822, 58048004>>,
      <<0, 1021, 42412364, 22173110>>, <<0, 1021, 40106396, 263337>>,
      <<0, 1021, 37940207, 57698682>>, <<0, 1021, 35900225, 58046786>>,
      <<0, 1021, 33974652, 35384581>>, <<0, 1021, 32153178, 47913915>>,
      <<0, 1021, 30426750, 41670168>>, <<0, 1021, 28787379, 56212760>>,
      <<0, 1021, 27227987, 26510583>>, <<0, 1021, 25742274, 56153468>>,
      <<0, 1021, 24324616, 63643263>>, <<0, 1021, 22969971, 65258524>>,
      <<0, 1021, 21673806, 2521449>>, <<0, 1021, 20432029, 14527803>>,
      <<0, 1021, 19240941, 10440497>>, <<0, 1021, 18097184, 42131173>>,
      <<0, 1021, 16997705, 45581710>>, <<0, 1021, 15939719, 19521913>>,
      <<0, 1021, 14920679, 45381677>>, <<0, 1021, 13938254, 33008222>>,
      <<0, 1021, 12990302, 24623282>>, <<0, 1021, 12074853, 17295227>>,
      <<0, 1021, 11190091, 14578784>>, <<0, 1021, 10334339, 15858473>>,
      <<0, 1021, 9506045, 58280069>>, <<0, 1021, 8703773, 26538435>>,
      <<0, 1021, 7926187, 22039383>>, <<0, 1021, 7172047, 4657456>>,
      <<0, 1021, 6440197, 39287995>>, <<0, 1021, 5729561, 64919160>>,
      <<0, 1021, 5039134, 51319952>>, <<0, 1021, 4367976, 175558>>, <<0, 1021, 3715205, 53670524>>,
      <<0, 1021, 3079999, 34727429>>, <<0, 1021, 2461583, 25431779>>,
      <<0, 1021, 1859230, 33934277>>, <<0, 1021, 1272257, 21800558>>,
      <<0, 1021, 700020, 20663534>>, <<0, 1021, 141913, 259200>>, <<0, 1020, 66303590, 45260810>>,
      <<0, 1020, 65240526, 19145978>>, <<0, 1020, 64202475, 55346137>> >>,
    <<
      <<0, 1023, 64570759, 48660359>>, <<0, 1023, 26002690, 59063066>>,
      <<0, 1023, 8916402, 13721932>>, <<0, 1022, 64570759, 48660359>>,
      <<0, 1022, 50668971, 64448895>>, <<0, 1022, 40407098, 36868955>>,
      <<0, 1022, 32431575, 11718441>>, <<0, 1022, 26002690, 59063066>>,
      <<0, 1022, 20677551, 54809861>>, <<0, 1022, 16172642, 32282702>>,
      <<0, 1022, 12296936, 54069294>>, <<0, 1022, 8916402, 13721932>>,
      <<0, 1022, 5933849, 7997699>>, <<0, 1022, 3276855, 36417278>>, <<0, 1022, 890201, 19883509>>,
      <<0, 1021, 64570759, 48660359>>, <<0, 1021, 60639135, 25424935>>,
      <<0, 1021, 57039875, 56381134>>, <<0, 1021, 53728646, 3407064>>,
      <<0, 1021, 50668971, 64448895>>, <<0, 1021, 47830534, 47341209>>,
      <<0, 1021, 45187896, 28891084>>, <<0, 1021, 42719534, 22627617>>,
      <<0, 1021, 40407098, 36868955>>, <<0, 1021, 38234834, 65771833>>,
      <<0, 1021, 36189131, 35276747>>, <<0, 1021, 34258157, 40665531>>,
      <<0, 1021, 32431575, 11718441>>, <<0, 1021, 30700305, 2324280>>,
      <<0, 1021, 29056336, 24877475>>, <<0, 1021, 27492570, 24137157>>,
      <<0, 1021, 26002690, 59063066>>, <<0, 1021, 24581056, 63134136>>,
      <<0, 1021, 23222612, 43205191>>, <<0, 1021, 21922811, 26967825>>,
      <<0, 1021, 20677551, 54809861>>, <<0, 1021, 19483123, 10510928>>,
      <<0, 1021, 18336158, 52250727>>, <<0, 1021, 17233596, 10965092>>,
      <<0, 1021, 16172642, 32282702>>, <<0, 1021, 15150744, 54015753>>,
      <<0, 1021, 14165564, 16785281>>, <<0, 1021, 13214953, 29531242>>,
      <<0, 1021, 12296936, 54069294>>, <<0, 1021, 11409693, 20596308>>,
      <<0, 1021, 10551541, 15507231>>, <<0, 1021, 9720924, 52373653>>,
      <<0, 1021, 8916402, 13721932>>, <<0, 1021, 8136635, 18218939>>,
      <<0, 1021, 7380379, 60672226>>, <<0, 1021, 6646477, 55688383>>,
      <<0, 1021, 5933849, 7997699>>, <<0, 1021, 5241485, 33669950>>,
      <<0, 1021, 4568444, 24579303>>, <<0, 1021, 3913843, 24409969>>,
      <<0, 1021, 3276855, 36417278>>, <<0, 1021, 2656704, 64157128>>,
      <<0, 1021, 2052662, 46077705>>, <<0, 1021, 1464043, 16410772>>,
      <<0, 1021, 890201, 19883509>>, <<0, 1021, 330528, 46304853>>,
      <<0, 1020, 66677767, 32977012>>, <<0, 1020, 65611721, 37994210>>,
      <<0, 1020, 64570759, 48660359>> >>,
    <<
      <<0, 1023, 64930294, 46975514>>, <<0, 1023, 26256920, 33482588>>,
      <<0, 1023, 9123979, 54962883>>, <<0, 1022, 64930294, 46975514>>,
      <<0, 1022, 50990549, 54896654>>, <<0, 1022, 40700657, 42084976>>,
      <<0, 1022, 32703358, 4647065>>, <<0, 1022, 26256920, 33482588>>,
      <<0, 1022, 20917241, 53686630>>, <<0, 1022, 16400032, 24486746>>,
      <<0, 1022, 12513744, 37117995>>, <<0, 1022, 9123979, 54962883>>,
      <<0, 1022, 6133283, 16126157>>, <<0, 1022, 3469035, 4728617>>,
      <<0, 1022, 1075864, 24090277>>, <<0, 1021, 64930294, 46975514>>,
      <<0, 1021, 60987935, 36124316>>, <<0, 1021, 57378848, 44643451>>,
      <<0, 1021, 54058577, 65178735>>, <<0, 1021, 50990549, 54896654>>,
      <<0, 1021, 48144362, 37593616>>, <<0, 1021, 45494508, 59547020>>,
      <<0, 1021, 43019407, 15815535>>, <<0, 1021, 40700657, 42084976>>,
      <<0, 1021, 38522462, 64423956>>, <<0, 1021, 36471173, 64730340>>,
      <<0, 1021, 34534927, 50914222>>, <<0, 1021, 32703358, 4647065>>,
      <<0, 1021, 30967360, 61044372>>, <<0, 1021, 29318903, 39727451>>,
      <<0, 1021, 27750867, 61115482>>, <<0, 1021, 26256920, 33482588>>,
      <<0, 1021, 24831404, 64654450>>, <<0, 1021, 23469251, 40387569>>,
      <<0, 1021, 22165901, 27706304>>, <<0, 1021, 20917241, 53686630>>,
      <<0, 1021, 19719551, 60379097>>, <<0, 1021, 18569455, 58847123>>,
      <<0, 1021, 17463882, 57071058>>, <<0, 1021, 16400032, 24486746>>,
      <<0, 1021, 15375344, 35107079>>, <<0, 1021, 14387474, 3646616>>,
      <<0, 1021, 13434267, 48229350>>, <<0, 1021, 12513744, 37117995>>,
      <<0, 1021, 11624078, 36597769>>, <<0, 1021, 10763583, 26245844>>,
      <<0, 1021, 9930699, 2996585>>, <<0, 1021, 9123979, 54962883>>,
      <<0, 1021, 8342083, 55604093>>, <<0, 1021, 7583763, 40207843>>,
      <<0, 1021, 6847857, 46691913>>, <<0, 1021, 6133283, 16126157>>,
      <<0, 1021, 5439029, 14050189>>, <<0, 1021, 4764150, 28056650>>,
      <<0, 1021, 4107762, 7263608>>, <<0, 1021, 3469035, 4728617>>, <<0, 1021, 2847191, 16046608>>,
      <<0, 1021, 2241499, 47431055>>, <<0, 1021, 1651273, 7509706>>,
      <<0, 1021, 1075864, 24090277>>, <<0, 1021, 514663, 42657394>>,
      <<0, 1020, 67043055, 26251377>>, <<0, 1020, 65974098, 50935329>>,
      <<0, 1020, 64930294, 46975514>> >>,
    <<
      <<0, 1023, 65281469, 43723568>>, <<0, 1023, 26505238, 46207662>>,
      <<0, 1023, 9326730, 51795718>>, <<0, 1022, 65281469, 43723568>>,
      <<0, 1022, 51304650, 16339757>>, <<0, 1022, 40987390, 51966199>>,
      <<0, 1022, 32968821, 25517076>>, <<0, 1022, 26505238, 46207662>>,
      <<0, 1022, 21151358, 29149046>>, <<0, 1022, 16622134, 60780196>>,
      <<0, 1022, 12725511, 1123690>>, <<0, 1022, 9326730, 51795718>>,
      <<0, 1022, 6328080, 3679466>>, <<0, 1022, 3656745, 65620209>>,
      <<0, 1022, 1257210, 21754247>>, <<0, 1021, 65281469, 43723568>>,
      <<0, 1021, 61328625, 19043607>>, <<0, 1021, 57709939, 39240594>>,
      <<0, 1021, 54380838, 13967966>>, <<0, 1021, 51304650, 16339757>>,
      <<0, 1021, 48450893, 12636976>>, <<0, 1021, 45793991, 59878525>>,
      <<0, 1021, 43312307, 26352258>>, <<0, 1021, 40987390, 51966199>>,
      <<0, 1021, 38803402, 61822400>>, <<0, 1021, 36746658, 17553830>>,
      <<0, 1021, 34805262, 24321714>>, <<0, 1021, 32968821, 25517076>>,
      <<0, 1021, 31228207, 7729318>>, <<0, 1021, 29575365, 34590533>>,
      <<0, 1021, 28003159, 29771880>>, <<0, 1021, 26505238, 46207662>>,
      <<0, 1021, 25075931, 54559889>>, <<0, 1021, 23710155, 42354391>>,
      <<0, 1021, 22403339, 1101666>>, <<0, 1021, 21151358, 29149046>>,
      <<0, 1021, 19950483, 8410141>>, <<0, 1021, 18797328, 18502538>>,
      <<0, 1021, 17688814, 56172618>>, <<0, 1021, 16622134, 60780196>>,
      <<0, 1021, 15594721, 52089218>>, <<0, 1021, 14604223, 63090505>>,
      <<0, 1021, 13648482, 28914563>>, <<0, 1021, 12725511, 1123690>>,
      <<0, 1021, 11833478, 55632414>>, <<0, 1021, 10970695, 5256335>>,
      <<0, 1021, 10135595, 38247792>>, <<0, 1021, 9326730, 51795718>>,
      <<0, 1021, 8542755, 15397915>>, <<0, 1021, 7782418, 10122584>>, <<0, 1021, 7044555, 807008>>,
      <<0, 1021, 6328080, 3679466>>, <<0, 1021, 5631979, 38045231>>,
      <<0, 1021, 4955305, 57013754>>, <<0, 1021, 4297171, 53114012>>,
      <<0, 1021, 3656745, 65620209>>, <<0, 1021, 3033248, 18363433>>,
      <<0, 1021, 2425945, 55536919>>, <<0, 1021, 1834149, 30193851>>,
      <<0, 1021, 1257210, 21754247>>, <<0, 1021, 694517, 1078367>>, <<0, 1021, 145492, 50289276>>,
      <<0, 1020, 66328049, 56392389>>, <<0, 1020, 65281469, 43723568>> >>,
    <<
      <<0, 1023, 65624648, 35810214>>, <<0, 1023, 26747902, 53903712>>,
      <<0, 1023, 9524865, 12869231>>, <<0, 1022, 65624648, 35810214>>,
      <<0, 1022, 51611598, 51471982>>, <<0, 1022, 41267595, 10618174>>,
      <<0, 1022, 33228240, 15492885>>, <<0, 1022, 26747902, 53903712>>,
      <<0, 1022, 21380144, 23873476>>, <<0, 1022, 16839180, 19337103>>,
      <<0, 1022, 12932455, 44901109>>, <<0, 1022, 9524865, 12869231>>,
      <<0, 1022, 6518441, 30068762>>, <<0, 1022, 3840182, 54107456>>,
      <<0, 1022, 1434427, 9183174>>, <<0, 1021, 65624648, 35810214>>,
      <<0, 1021, 61661557, 47139402>>, <<0, 1021, 58033491, 49501994>>,
      <<0, 1021, 54695760, 50228680>>, <<0, 1021, 51611598, 51471982>>,
      <<0, 1021, 48750444, 18440939>>, <<0, 1021, 46086655, 55448794>>,
      <<0, 1021, 43598538, 24611201>>, <<0, 1021, 41267595, 10618174>>,
      <<0, 1021, 39077946, 1804626>>, <<0, 1021, 37015869, 62118124>>,
      <<0, 1021, 35069441, 39528596>>, <<0, 1021, 33228240, 15492885>>,
      <<0, 1021, 31483113, 66399487>>, <<0, 1021, 29825987, 62774075>>,
      <<0, 1021, 28249706, 28903631>>, <<0, 1021, 26747902, 53903712>>,
      <<0, 1021, 25314890, 61369104>>, <<0, 1021, 23945574, 26980509>>,
      <<0, 1021, 22635370, 19480069>>, <<0, 1021, 21380144, 23873476>>,
      <<0, 1021, 20176156, 11276720>>, <<0, 1021, 19020012, 9363219>>,
      <<0, 1021, 17908625, 16125446>>, <<0, 1021, 16839180, 19337103>>,
      <<0, 1021, 15809103, 62025477>>, <<0, 1021, 14816038, 36553371>>,
      <<0, 1021, 13857819, 39352896>>, <<0, 1021, 12932455, 44901109>>,
      <<0, 1021, 12038111, 11945033>>, <<0, 1021, 11173090, 63153890>>,
      <<0, 1021, 10335826, 47567099>>, <<0, 1021, 9524865, 12869231>>,
      <<0, 1021, 8738857, 30049960>>, <<0, 1021, 7976549, 29701197>>,
      <<0, 1021, 7236773, 42517535>>, <<0, 1021, 6518441, 30068762>>,
      <<0, 1021, 5820536, 36643472>>, <<0, 1021, 5142108, 51818025>>,
      <<0, 1021, 4482268, 48019100>>, <<0, 1021, 3840182, 54107456>>,
      <<0, 1021, 3215068, 59530126>>, <<0, 1021, 2606192, 13886193>>,
      <<0, 1021, 2012861, 52992035>>, <<0, 1021, 1434427, 9183174>>, <<0, 1021, 870275, 15391512>>,
      <<0, 1021, 319827, 53405322>>, <<0, 1020, 66673941, 43026801>>,
      <<0, 1020, 65624648, 35810214>> >>,
    <<
      <<0, 1023, 65960172, 28356119>>, <<0, 1023, 26985154, 1364798>>,
      <<0, 1023, 9718579, 67065717>>, <<0, 1022, 65960172, 28356119>>,
      <<0, 1022, 51911700, 30633662>>, <<0, 1022, 41541549, 17874461>>,
      <<0, 1022, 33481872, 30238000>>, <<0, 1022, 26985154, 1364798>>,
      <<0, 1022, 21603826, 63643322>>, <<0, 1022, 17051384, 15289114>>,
      <<0, 1022, 13134784, 12539582>>, <<0, 1022, 9718579, 67065717>>,
      <<0, 1022, 6704556, 41277629>>, <<0, 1022, 4019527, 58301152>>,
      <<0, 1022, 1607690, 62280266>>, <<0, 1021, 65960172, 28356119>>,
      <<0, 1021, 61987063, 46096563>>, <<0, 1021, 58349826, 46558974>>,
      <<0, 1021, 55003658, 39278904>>, <<0, 1021, 51911700, 30633662>>,
      <<0, 1021, 49043313, 35933551>>, <<0, 1021, 46372791, 37590668>>,
      <<0, 1021, 43878384, 42623600>>, <<0, 1021, 41541549, 17874461>>,
      <<0, 1021, 39346365, 9263122>>, <<0, 1021, 37279076, 34829664>>,
      <<0, 1021, 35327727, 67051335>>, <<0, 1021, 33481872, 30238000>>,
      <<0, 1021, 31732334, 58888788>>, <<0, 1021, 30071019, 63001911>>,
      <<0, 1021, 28490753, 60956872>>, <<0, 1021, 26985154, 1364798>>,
      <<0, 1021, 25548519, 51195738>>, <<0, 1021, 24175741, 59791966>>,
      <<0, 1021, 22862225, 56647014>>, <<0, 1021, 21603826, 63643322>>,
      <<0, 1021, 20396795, 21358103>>, <<0, 1021, 19237728, 52872522>>,
      <<0, 1021, 18123532, 35155135>>, <<0, 1021, 17051384, 15289114>>,
      <<0, 1021, 16018704, 2415884>>, <<0, 1021, 15023128, 25830311>>,
      <<0, 1021, 14062487, 16099285>>, <<0, 1021, 13134784, 12539582>>,
      <<0, 1021, 12238178, 65161684>>, <<0, 1021, 11370972, 9069473>>,
      <<0, 1021, 10531591, 31247682>>, <<0, 1021, 9718579, 67065717>>,
      <<0, 1021, 8930585, 25790477>>, <<0, 1021, 8166350, 27935384>>,
      <<0, 1021, 7424704, 40353348>>, <<0, 1021, 6704556, 41277629>>,
      <<0, 1021, 6004887, 36804812>>, <<0, 1021, 5324744, 56655550>>,
      <<0, 1021, 4663236, 56596503>>, <<0, 1021, 4019527, 58301152>>,
      <<0, 1021, 3392833, 52750785>>, <<0, 1021, 2782417, 66229498>>,
      <<0, 1021, 2187587, 50229093>>, <<0, 1021, 1607690, 62280266>>,
      <<0, 1021, 1042112, 64214808>>, <<0, 1021, 490274, 6833143>>,
      <<0, 1020, 67012117, 62686955>>, <<0, 1020, 65960172, 28356119>> >>,
    <<
      <<0, 1023, 66288361, 25393412>>, <<0, 1023, 27217218, 44059031>>,
      <<0, 1023, 9908059, 65858183>>, <<0, 1022, 66288361, 25393412>>,
      <<0, 1022, 52205241, 39082675>>, <<0, 1022, 41809514, 28635473>>,
      <<0, 1022, 33729959, 65905842>>, <<0, 1022, 27217218, 44059031>>,
      <<0, 1022, 21822619, 39298562>>, <<0, 1022, 17258949, 9966113>>,
      <<0, 1022, 13332689, 38491194>>, <<0, 1022, 9908059, 65858183>>,
      <<0, 1022, 6886603, 6260907>>, <<0, 1022, 4194952, 16414887>>,
      <<0, 1022, 1777166, 65505293>>, <<0, 1021, 66288361, 25393412>>,
      <<0, 1021, 62305453, 49730545>>, <<0, 1021, 58659246, 14006131>>,
      <<0, 1021, 55304825, 28583107>>, <<0, 1021, 52205241, 39082675>>,
      <<0, 1021, 49329780, 22926464>>, <<0, 1021, 46652672, 2824974>>,
      <<0, 1021, 44152113, 9828713>>, <<0, 1021, 41809514, 28635473>>,
      <<0, 1021, 39608916, 20314730>>, <<0, 1021, 37536529, 7883248>>,
      <<0, 1021, 35580367, 65441290>>, <<0, 1021, 33729959, 65905842>>,
      <<0, 1021, 31976107, 34499534>>, <<0, 1021, 30310695, 17747659>>,
      <<0, 1021, 28726531, 54658757>>, <<0, 1021, 27217218, 44059031>>,
      <<0, 1021, 25777041, 14727520>>, <<0, 1021, 24400877, 44112129>>,
      <<0, 1021, 23084122, 5235902>>, <<0, 1021, 21822619, 39298562>>,
      <<0, 1021, 20612611, 3100977>>, <<0, 1021, 19450685, 60608233>>,
      <<0, 1021, 18333741, 46322006>>, <<0, 1021, 17258949, 9966113>>,
      <<0, 1021, 16223722, 3448216>>, <<0, 1021, 15225691, 411770>>,
      <<0, 1021, 14262680, 42021135>>, <<0, 1021, 13332689, 38491194>>,
      <<0, 1021, 12433873, 3685496>>, <<0, 1021, 11564527, 28299997>>,
      <<0, 1021, 10723076, 39100785>>, <<0, 1021, 9908059, 65858183>>,
      <<0, 1021, 9118121, 62445424>>, <<0, 1021, 8352002, 8403679>>,
      <<0, 1021, 7608527, 12400568>>, <<0, 1021, 6886603, 6260907>>,
      <<0, 1021, 6185208, 28767209>>, <<0, 1021, 5503388, 19090315>>,
      <<0, 1021, 4840248, 53852959>>, <<0, 1021, 4194952, 16414887>>,
      <<0, 1021, 3566712, 36409982>>, <<0, 1021, 2954791, 18205566>>,
      <<0, 1021, 2358493, 67075655>>, <<0, 1021, 1777166, 65505293>>,
      <<0, 1021, 1210194, 7826116>>, <<0, 1021, 656994, 17321800>>, <<0, 1021, 117018, 43937228>>,
      <<0, 1020, 66288361, 25393412>> >>,
    <<
      <<0, 1023, 66609516, 8180693>>, <<0, 1023, 27444309, 23721455>>,
      <<0, 1023, 10093478, 50934334>>, <<0, 1022, 66609516, 8180693>>,
      <<0, 1022, 52492491, 7884731>>, <<0, 1022, 42071736, 11859938>>,
      <<0, 1022, 33972730, 9988772>>, <<0, 1022, 27444309, 23721455>>,
      <<0, 1022, 22036722, 50193038>>, <<0, 1022, 17462065, 16285894>>,
      <<0, 1022, 13526353, 11450802>>, <<0, 1022, 10093478, 50934334>>,
      <<0, 1022, 7064747, 46475487>>, <<0, 1022, 4366616, 45351784>>,
      <<0, 1022, 1943010, 38421692>>, <<0, 1021, 66609516, 8180693>>,
      <<0, 1021, 62617019, 40724725>>, <<0, 1021, 58962033, 53998228>>,
      <<0, 1021, 55599537, 15474995>>, <<0, 1021, 52492491, 7884731>>,
      <<0, 1021, 49610107, 12341556>>, <<0, 1021, 46926553, 48828755>>,
      <<0, 1021, 44419974, 48259206>>, <<0, 1021, 42071736, 11859938>>,
      <<0, 1021, 39865840, 6544555>>, <<0, 1021, 37788463, 41995643>>,
      <<0, 1021, 35827593, 803581>>, <<0, 1021, 33972730, 9988772>>,
      <<0, 1021, 32214655, 18045340>>, <<0, 1021, 30545233, 35417020>>,
      <<0, 1021, 28957256, 12972216>>, <<0, 1021, 27444309, 23721455>>,
      <<0, 1021, 26000664, 45584005>>, <<0, 1021, 24621187, 66693955>>,
      <<0, 1021, 23301262, 21229509>>, <<0, 1021, 22036722, 50193038>>,
      <<0, 1021, 20823801, 7020521>>, <<0, 1021, 19659078, 41521173>>,
      <<0, 1021, 18539445, 23817473>>, <<0, 1021, 17462065, 16285894>>,
      <<0, 1021, 16424345, 55643451>>, <<0, 1021, 15423912, 1157991>>,
      <<0, 1021, 14458583, 12289461>>, <<0, 1021, 13526353, 11450802>>,
      <<0, 1021, 12625372, 49995730>>, <<0, 1021, 11753934, 10479000>>,
      <<0, 1021, 10910457, 34787475>>, <<0, 1021, 10093478, 50934334>>,
      <<0, 1021, 9301638, 62196565>>, <<0, 1021, 8533674, 45820710>>,
      <<0, 1021, 7788409, 55114793>>, <<0, 1021, 7064747, 46475487>>,
      <<0, 1021, 6361664, 27876916>>, <<0, 1021, 5678202, 52645868>>,
      <<0, 1021, 5013466, 52988823>>, <<0, 1021, 4366616, 45351784>>,
      <<0, 1021, 3736864, 32367467>>, <<0, 1021, 3123470, 426104>>, <<0, 1021, 2525737, 9714745>>,
      <<0, 1021, 1943010, 38421692>>, <<0, 1021, 1374672, 48449724>>, <<0, 1021, 820141, 2078034>>,
      <<0, 1021, 278865, 29028803>>, <<0, 1020, 66609516, 8180693>> >>,
    <<
      <<0, 1023, 66923919, 36792856>>, <<0, 1023, 27666626, 9950952>>,
      <<0, 1023, 10274999, 44414029>>, <<0, 1022, 66923919, 36792856>>,
      <<0, 1022, 52773702, 6104666>>, <<0, 1022, 42328445, 33512638>>,
      <<0, 1022, 34210396, 53657094>>, <<0, 1022, 27666626, 9950952>>,
      <<0, 1022, 22246325, 2158950>>, <<0, 1022, 17660911, 28787484>>,
      <<0, 1022, 13715945, 38270186>>, <<0, 1022, 10274999, 44414029>>,
      <<0, 1022, 7239147, 22470157>>, <<0, 1022, 4534672, 25244494>>,
      <<0, 1022, 2105367, 53939600>>, <<0, 1021, 66923919, 36792856>>,
      <<0, 1021, 62922035, 49187003>>, <<0, 1021, 59258456, 13267936>>,
      <<0, 1021, 55888053, 40382725>>, <<0, 1021, 52773702, 6104666>>,
      <<0, 1021, 49884540, 66668070>>, <<0, 1021, 47194677, 58418190>>,
      <<0, 1021, 44682205, 20402004>>, <<0, 1021, 42328445, 33512638>>,
      <<0, 1021, 40117362, 56277830>>, <<0, 1021, 38035101, 64772616>>,
      <<0, 1021, 36069620, 59218706>>, <<0, 1021, 34210396, 53657094>>,
      <<0, 1021, 32448188, 18201278>>, <<0, 1021, 30774841, 21885300>>,
      <<0, 1021, 29183130, 18971385>>, <<0, 1021, 27666626, 9950952>>,
      <<0, 1021, 26219587, 8401459>>, <<0, 1021, 24836866, 64756856>>,
      <<0, 1021, 23513837, 55776331>>, <<0, 1021, 22246325, 2158950>>,
      <<0, 1021, 21030551, 35178865>>, <<0, 1021, 19863090, 33637653>>,
      <<0, 1021, 18740824, 48033608>>, <<0, 1021, 17660911, 28787484>>,
      <<0, 1021, 16620752, 6209570>>, <<0, 1021, 15617966, 1675012>>,
      <<0, 1021, 14650367, 31892424>>, <<0, 1021, 13715945, 38270186>>,
      <<0, 1021, 12812846, 48809020>>, <<0, 1021, 11939359, 12144240>>,
      <<0, 1021, 11093899, 22201101>>, <<0, 1021, 10274999, 44414029>>,
      <<0, 1021, 9481298, 1850528>>, <<0, 1021, 8711528, 7960762>>, <<0, 1021, 7964510, 64678459>>,
      <<0, 1021, 7239147, 22470157>>, <<0, 1021, 6534410, 63297363>>,
      <<0, 1021, 5849342, 22341759>>, <<0, 1021, 5183043, 25973808>>,
      <<0, 1021, 4534672, 25244494>>, <<0, 1021, 3903439, 32672909>>,
      <<0, 1021, 3288602, 52071335>>, <<0, 1021, 2689464, 33789574>>,
      <<0, 1021, 2105367, 53939600>>, <<0, 1021, 1535693, 44087819>>, <<0, 1021, 979858, 8809405>>,
      <<0, 1021, 437309, 58141018>>, <<0, 1020, 66923919, 36792856>> >>,
    <<
      <<0, 1024, 61487, 3235732>>, <<0, 1023, 27884357, 29645283>>,
      <<0, 1023, 10452776, 34795847>>, <<0, 1023, 61487, 3235732>>,
      <<0, 1022, 53049112, 54564102>>, <<0, 1022, 42579859, 63160661>>,
      <<0, 1022, 34443161, 23027418>>, <<0, 1022, 27884357, 29645283>>,
      <<0, 1022, 22451604, 4314310>>, <<0, 1022, 17855656, 14641588>>,
      <<0, 1022, 13901627, 29610592>>, <<0, 1022, 10452776, 34795847>>,
      <<0, 1022, 7409949, 54621654>>, <<0, 1022, 4699261, 51228161>>,
      <<0, 1022, 2264376, 17334616>>, <<0, 1022, 61487, 3235732>>, <<0, 1021, 63220760, 40474168>>,
      <<0, 1021, 59548764, 39527045>>, <<0, 1021, 56170619, 2721812>>,
      <<0, 1021, 53049112, 54564102>>, <<0, 1021, 50153314, 22630565>>,
      <<0, 1021, 47457271, 46352100>>, <<0, 1021, 44939027, 8496955>>,
      <<0, 1021, 42579859, 63160661>>, <<0, 1021, 40363697, 45442490>>,
      <<0, 1021, 38276653, 9905925>>, <<0, 1021, 36306656, 46394463>>,
      <<0, 1021, 34443161, 23027418>>, <<0, 1021, 32676904, 28652689>>,
      <<0, 1021, 30999713, 16043274>>, <<0, 1021, 29404345, 33425240>>,
      <<0, 1021, 27884357, 29645283>>, <<0, 1021, 26433994, 5473303>>,
      <<0, 1021, 25048097, 23243670>>, <<0, 1021, 23722028, 51540463>>,
      <<0, 1021, 22451604, 4314310>>, <<0, 1021, 21233037, 34505812>>,
      <<0, 1021, 20062894, 29470902>>, <<0, 1021, 18938050, 28878530>>,
      <<0, 1021, 17855656, 14641588>>, <<0, 1021, 16813107, 19100897>>,
      <<0, 1021, 15808017, 32142175>>, <<0, 1021, 14838196, 1928515>>,
      <<0, 1021, 13901627, 29610592>>, <<0, 1021, 12996453, 58745690>>,
      <<0, 1021, 12120959, 42498775>>, <<0, 1021, 11273557, 31975304>>,
      <<0, 1021, 10452776, 34795847>>, <<0, 1021, 9657251, 32458922>>,
      <<0, 1021, 8885713, 10294454>>, <<0, 1021, 8136979, 56907622>>,
      <<0, 1021, 7409949, 54621654>>, <<0, 1021, 6703594, 27173392>>,
      <<0, 1021, 6016951, 64476729>>, <<0, 1021, 5349122, 20220172>>,
      <<0, 1021, 4699261, 51228161>>, <<0, 1021, 4066578, 48252894>>,
      <<0, 1021, 3450329, 34937729>>, <<0, 1021, 2849814, 55387310>>,
      <<0, 1021, 2264376, 17334616>>, <<0, 1021, 1693393, 25346173>>,
      <<0, 1021, 1136280, 61080250>>, <<0, 1021, 592486, 15351612>>, <<0, 1021, 61487, 3235732>> >>,
    <<
      <<0, 1024, 212329, 33226999>>, <<0, 1023, 28097680, 58783561>>,
      <<0, 1023, 10626954, 25041661>>, <<0, 1023, 212329, 33226999>>,
      <<0, 1022, 53318947, 66116024>>, <<0, 1022, 42826184, 41975260>>,
      <<0, 1022, 34671213, 46099917>>, <<0, 1022, 28097680, 58783561>>,
      <<0, 1022, 22652727, 21933044>>, <<0, 1022, 18046458, 33433462>>,
      <<0, 1022, 14083550, 18600882>>, <<0, 1022, 10626954, 25041661>>,
      <<0, 1022, 7577294, 32461922>>, <<0, 1022, 4860519, 8196040>>,
      <<0, 1022, 2420165, 44800271>>, <<0, 1022, 212329, 33226999>>,
      <<0, 1021, 63513437, 63099003>>, <<0, 1021, 59833195, 56008460>>,
      <<0, 1021, 56447464, 5758071>>, <<0, 1021, 53318947, 66116024>>,
      <<0, 1021, 50416646, 33648003>>, <<0, 1021, 47714549, 29030988>>,
      <<0, 1021, 45190649, 48456938>>, <<0, 1021, 42826184, 41975260>>,
      <<0, 1021, 40605045, 39741425>>, <<0, 1021, 38513314, 16725118>>,
      <<0, 1021, 36538893, 55758503>>, <<0, 1021, 34671213, 46099917>>,
      <<0, 1021, 32900990, 22848804>>, <<0, 1021, 31220032, 49293296>>,
      <<0, 1021, 29621082, 21740124>>, <<0, 1021, 28097680, 58783561>>,
      <<0, 1021, 26644060, 32089104>>, <<0, 1021, 25255051, 31953643>>,
      <<0, 1021, 23926004, 66121358>>, <<0, 1021, 22652727, 21933044>>,
      <<0, 1021, 21431424, 18675525>>, <<0, 1021, 20258653, 30063458>>,
      <<0, 1021, 19131283, 27556910>>, <<0, 1021, 18046458, 33433462>>,
      <<0, 1021, 17001568, 23066005>>, <<0, 1021, 15994221, 29390107>>,
      <<0, 1021, 15022222, 5954208>>, <<0, 1021, 14083550, 18600882>>,
      <<0, 1021, 13176343, 66446971>>, <<0, 1021, 12298883, 45420867>>,
      <<0, 1021, 11449578, 35859712>>, <<0, 1021, 10626954, 25041661>>,
      <<0, 1021, 9829642, 57147674>>, <<0, 1021, 9056371, 60448621>>,
      <<0, 1021, 8305957, 12574255>>, <<0, 1021, 7577294, 32461922>>,
      <<0, 1021, 6869352, 55935838>>, <<0, 1021, 6181168, 27983507>>,
      <<0, 1021, 5511839, 2176668>>, <<0, 1021, 4860519, 8196040>>, <<0, 1021, 4226415, 18818632>>,
      <<0, 1021, 3608782, 12725708>>, <<0, 1021, 3006918, 62845631>>,
      <<0, 1021, 2420165, 44800271>>, <<0, 1021, 1847900, 36761724>>,
      <<0, 1021, 1289536, 66402744>>, <<0, 1021, 744521, 8363657>>, <<0, 1021, 212329, 33226999>> >>,
    <<
      <<0, 1024, 360173, 45807901>>, <<0, 1023, 28306764, 8790019>>,
      <<0, 1023, 10797670, 9127996>>, <<0, 1023, 360173, 45807901>>,
      <<0, 1022, 53583419, 47500629>>, <<0, 1022, 43067613, 11585592>>,
      <<0, 1022, 34894733, 5943206>>, <<0, 1022, 28306764, 8790019>>,
      <<0, 1022, 22849852, 61077201>>, <<0, 1022, 18233468, 16554839>>,
      <<0, 1022, 14261857, 5112565>>, <<0, 1022, 10797670, 9127996>>,
      <<0, 1022, 7741312, 59278677>>, <<0, 1022, 5018571, 13874196>>,
      <<0, 1022, 2572858, 32736872>>, <<0, 1022, 360173, 45807901>>,
      <<0, 1021, 63800297, 53658686>>, <<0, 1021, 60111973, 34089647>>,
      <<0, 1021, 56718806, 23349687>>, <<0, 1021, 53583419, 47500629>>,
      <<0, 1021, 50674744, 31862032>>, <<0, 1021, 47966713, 21878594>>,
      <<0, 1021, 45437270, 58723016>>, <<0, 1021, 43067613, 11585592>>,
      <<0, 1021, 40841596, 19605550>>, <<0, 1021, 38745271, 19758047>>,
      <<0, 1021, 36766514, 56909904>>, <<0, 1021, 34894733, 5943206>>,
      <<0, 1021, 33120622, 10173154>>, <<0, 1021, 31435972, 66557877>>,
      <<0, 1021, 29833511, 8287997>>, <<0, 1021, 28306764, 8790019>>,
      <<0, 1021, 26849951, 29190785>>, <<0, 1021, 25457892, 1874193>>,
      <<0, 1021, 24125926, 54747983>>, <<0, 1021, 22849852, 61077201>>,
      <<0, 1021, 21625867, 50726214>>, <<0, 1021, 20450521, 26948164>>,
      <<0, 1021, 19320675, 36571184>>, <<0, 1021, 18233468, 16554839>>,
      <<0, 1021, 17186283, 27323693>>, <<0, 1021, 16176724, 17793187>>,
      <<0, 1021, 15202590, 20568462>>, <<0, 1021, 14261857, 5112565>>,
      <<0, 1021, 13352658, 31667086>>, <<0, 1021, 12473271, 11172108>>,
      <<0, 1021, 11622100, 57951055>>, <<0, 1021, 10797670, 9127996>>,
      <<0, 1021, 9998607, 42764906>>, <<0, 1021, 9223638, 33875561>>,
      <<0, 1021, 8471575, 53980618>>, <<0, 1021, 7741312, 59278677>>,
      <<0, 1021, 7031816, 34980382>>, <<0, 1021, 6342120, 52462971>>,
      <<0, 1021, 5671321, 32333598>>, <<0, 1021, 5018571, 13874196>>,
      <<0, 1021, 4383074, 54257914>>, <<0, 1021, 3764085, 22322671>>,
      <<0, 1021, 3160900, 21915436>>, <<0, 1021, 2572858, 32736872>>,
      <<0, 1021, 1999336, 41314325>>, <<0, 1021, 1439746, 55979361>>, <<0, 1021, 893534, 3962137>>,
      <<0, 1021, 360173, 45807901>> >>,
    <<
      <<0, 1024, 505131, 43400310>>, <<0, 1023, 28511765, 43608667>>,
      <<0, 1023, 10965053, 11759768>>, <<0, 1023, 505131, 43400310>>,
      <<0, 1022, 53842728, 26651863>>, <<0, 1022, 43304328, 36024704>>,
      <<0, 1022, 35113888, 62453878>>, <<0, 1022, 28511765, 43608667>>,
      <<0, 1022, 23043130, 13127837>>, <<0, 1022, 18416827, 12034738>>,
      <<0, 1022, 14436682, 64348301>>, <<0, 1022, 10965053, 11759768>>,
      <<0, 1022, 7902129, 20509087>>, <<0, 1022, 5173537, 52936092>>,
      <<0, 1022, 2722570, 28816869>>, <<0, 1022, 505131, 43400310>>,
      <<0, 1021, 64081557, 37784933>>, <<0, 1021, 60385308, 58144890>>,
      <<0, 1021, 56984851, 30178638>>, <<0, 1021, 53842728, 26651863>>,
      <<0, 1021, 50927803, 56613963>>, <<0, 1021, 48213954, 30894111>>,
      <<0, 1021, 45679077, 31853832>>, <<0, 1021, 43304328, 36024704>>,
      <<0, 1021, 41073529, 2331632>>, <<0, 1021, 38972700, 4017807>>,
      <<0, 1021, 36989692, 15679690>>, <<0, 1021, 35113888, 62453878>>,
      <<0, 1021, 33335966, 19927820>>, <<0, 1021, 31647697, 43622894>>,
      <<0, 1021, 30041792, 58715045>>, <<0, 1021, 28511765, 43608667>>,
      <<0, 1021, 27051822, 65486927>>, <<0, 1021, 25656772, 47912173>>,
      <<0, 1021, 24321945, 51004518>>, <<0, 1021, 23043130, 13127837>>,
      <<0, 1021, 21816515, 19858202>>, <<0, 1021, 20638643, 46782556>>,
      <<0, 1021, 19506370, 23779985>>, <<0, 1021, 18416827, 12034738>>,
      <<0, 1021, 17367392, 30315661>>, <<0, 1021, 16355664, 17507589>>,
      <<0, 1021, 15379437, 24480774>>, <<0, 1021, 14436682, 64348301>>,
      <<0, 1021, 13525530, 62507151>>, <<0, 1021, 12644254, 16965315>>,
      <<0, 1021, 11791255, 13500567>>, <<0, 1021, 10965053, 11759768>>,
      <<0, 1021, 10164273, 59187335>>, <<0, 1021, 9387639, 48308707>>,
      <<0, 1021, 8633961, 13725190>>, <<0, 1021, 7902129, 20509087>>,
      <<0, 1021, 7191108, 39114793>>, <<0, 1021, 6499931, 1646848>>,
      <<0, 1021, 5827690, 33887884>>, <<0, 1021, 5173537, 52936092>>,
      <<0, 1021, 4536676, 1316893>>, <<0, 1021, 3916356, 42822412>>,
      <<0, 1021, 3311875, 45799380>>, <<0, 1021, 2722570, 28816869>>,
      <<0, 1021, 2147816, 22764294>>, <<0, 1021, 1587024, 18319719>>,
      <<0, 1021, 1039637, 64005540>>, <<0, 1021, 505131, 43400310>> >>,
    <<
      <<0, 1024, 647309, 24085099>>, <<0, 1023, 28712835, 20042279>>,
      <<0, 1023, 11129225, 57447540>>, <<0, 1023, 647309, 24085099>>,
      <<0, 1022, 54097063, 41647847>>, <<0, 1022, 43536503, 51577836>>,
      <<0, 1022, 35328841, 28646613>>, <<0, 1022, 28712835, 20042279>>,
      <<0, 1022, 23232700, 32113466>>, <<0, 1022, 18596669, 22852784>>,
      <<0, 1022, 14608155, 49092755>>, <<0, 1022, 11129225, 57447540>>,
      <<0, 1022, 8059861, 21159455>>, <<0, 1022, 5325532, 10504431>>,
      <<0, 1022, 2869410, 63024112>>, <<0, 1022, 647309, 24085099>>,
      <<0, 1021, 64357422, 56731128>>, <<0, 1021, 60653401, 49092661>>,
      <<0, 1021, 57245793, 59266318>>, <<0, 1021, 54097063, 41647847>>,
      <<0, 1021, 51176009, 40717593>>, <<0, 1021, 48456453, 38993763>>,
      <<0, 1021, 45916246, 19692300>>, <<0, 1021, 43536503, 51577836>>,
      <<0, 1021, 41301013, 25114386>>, <<0, 1021, 39195766, 54169986>>,
      <<0, 1021, 37208589, 9487856>>, <<0, 1021, 35328841, 28646613>>,
      <<0, 1021, 33547180, 13670417>>, <<0, 1021, 31855361, 32909809>>,
      <<0, 1021, 30246079, 56534132>>, <<0, 1021, 28712835, 20042279>>,
      <<0, 1021, 27249822, 45550549>>, <<0, 1021, 25851838, 62127349>>,
      <<0, 1021, 24514205, 7880607>>, <<0, 1021, 23232700, 32113466>>,
      <<0, 1021, 22003506, 18193869>>, <<0, 1021, 20823157, 57800818>>,
      <<0, 1021, 19688503, 39651910>>, <<0, 1021, 18596669, 22852784>>,
      <<0, 1021, 17545027, 58860020>>, <<0, 1021, 16531172, 16047013>>,
      <<0, 1021, 15552892, 36743310>>, <<0, 1021, 14608155, 49092755>>,
      <<0, 1021, 13695087, 50134853>>, <<0, 1021, 12811957, 62602340>>,
      <<0, 1021, 11957165, 13918500>>, <<0, 1021, 11129225, 57447540>>,
      <<0, 1021, 10326762, 46699789>>, <<0, 1021, 9548495, 29455596>>,
      <<0, 1021, 8793232, 6679276>>, <<0, 1021, 8059861, 21159455>>,
      <<0, 1021, 7347345, 31451555>>, <<0, 1021, 6654714, 34385224>>,
      <<0, 1021, 5981060, 27874685>>, <<0, 1021, 5325532, 10504431>>,
      <<0, 1021, 4687331, 13677655>>, <<0, 1021, 4065707, 28444276>>,
      <<0, 1021, 3459955, 25137678>>, <<0, 1021, 2869410, 63024112>>,
      <<0, 1021, 2293448, 17751876>>, <<0, 1021, 1731476, 65297843>>,
      <<0, 1021, 1182939, 41467363>>, <<0, 1021, 647309, 24085099>> >>,
    <<
      <<0, 1024, 786807, 10203978>>, <<0, 1023, 28910114, 65072405>>,
      <<0, 1023, 11290304, 2207482>>, <<0, 1023, 786807, 10203978>>,
      <<0, 1022, 54346604, 57657669>>, <<0, 1022, 43764302, 47706750>>,
      <<0, 1022, 35539742, 17875867>>, <<0, 1022, 28910114, 65072405>>,
      <<0, 1022, 23418697, 35974925>>, <<0, 1022, 18773121, 43117981>>,
      <<0, 1022, 14776396, 26860890>>, <<0, 1022, 11290304, 2207482>>,
      <<0, 1022, 8214620, 14882919>>, <<0, 1022, 5474661, 38272118>>,
      <<0, 1022, 3013483, 42975968>>, <<0, 1022, 786807, 10203978>>,
      <<0, 1021, 64628088, 21541431>>, <<0, 1021, 60916441, 19654343>>,
      <<0, 1021, 57501817, 53140631>>, <<0, 1021, 54346604, 57657669>>,
      <<0, 1021, 51419536, 61717245>>, <<0, 1021, 48694381, 54794255>>,
      <<0, 1021, 46148944, 46859045>>, <<0, 1021, 43764302, 47706750>>,
      <<0, 1021, 41524209, 56591684>>, <<0, 1021, 39414628, 63862600>>,
      <<0, 1021, 37423360, 2943310>>, <<0, 1021, 35539742, 17875867>>,
      <<0, 1021, 33754412, 61921637>>, <<0, 1021, 32059111, 3924736>>,
      <<0, 1021, 30446516, 12656587>>, <<0, 1021, 28910114, 65072405>>,
      <<0, 1021, 27444090, 18086083>>, <<0, 1021, 26043228, 21409242>>,
      <<0, 1021, 24702840, 37774689>>, <<0, 1021, 23418697, 35974925>>,
      <<0, 1021, 22186972, 42850226>>, <<0, 1021, 21004194, 6932426>>,
      <<0, 1021, 19867203, 52578592>>, <<0, 1021, 18773121, 43117981>>,
      <<0, 1021, 17719315, 2559549>>, <<0, 1021, 16703372, 3589547>>,
      <<0, 1021, 15723078, 17427080>>, <<0, 1021, 14776396, 26860890>>,
      <<0, 1021, 13861448, 38438446>>, <<0, 1021, 12976500, 37102094>>,
      <<0, 1021, 12119947, 64605855>>, <<0, 1021, 11290304, 2207482>>,
      <<0, 1021, 10486188, 50009611>>, <<0, 1021, 9706319, 11792606>>,
      <<0, 1021, 8949500, 59374286>>, <<0, 1021, 8214620, 14882919>>,
      <<0, 1021, 7500637, 29055711>>, <<0, 1021, 6806580, 31804500>>,
      <<0, 1021, 6131539, 29803034>>, <<0, 1021, 5474661, 38272118>>,
      <<0, 1021, 4835146, 45394549>>, <<0, 1021, 4212243, 5686860>>,
      <<0, 1021, 3605243, 60450416>>, <<0, 1021, 3013483, 42975968>>,
      <<0, 1021, 2436335, 10876231>>, <<0, 1021, 1873206, 58558477>>,
      <<0, 1021, 1323540, 11917245>>, <<0, 1021, 786807, 10203978>> >>,
    <<
      <<0, 1024, 923720, 7396912>>, <<0, 1023, 29103739, 8856027>>,
      <<0, 1023, 11448397, 33514550>>, <<0, 1023, 923720, 7396912>>,
      <<0, 1022, 54591522, 13713278>>, <<0, 1022, 43987880, 42637573>>,
      <<0, 1022, 35746735, 13603289>>, <<0, 1022, 29103739, 8856027>>,
      <<0, 1022, 23601248, 9862549>>, <<0, 1022, 18946304, 24032573>>,
      <<0, 1022, 14941519, 42996113>>, <<0, 1022, 11448397, 33514550>>,
      <<0, 1022, 8366511, 34312744>>, <<0, 1022, 5621027, 45582905>>,
      <<0, 1022, 3154886, 49362549>>, <<0, 1022, 923720, 7396912>>,
      <<0, 1021, 64893738, 32217477>>, <<0, 1021, 61174606, 56547279>>,
      <<0, 1021, 57753097, 46040670>>, <<0, 1021, 54591522, 13713278>>,
      <<0, 1021, 51658551, 51988146>>, <<0, 1021, 48927901, 22990301>>,
      <<0, 1021, 46377331, 20149686>>, <<0, 1021, 43987880, 42637573>>,
      <<0, 1021, 41743270, 38678605>>, <<0, 1021, 39629435, 45183207>>,
      <<0, 1021, 37634151, 22316446>>, <<0, 1021, 35746735, 13603289>>,
      <<0, 1021, 33957805, 47462881>>, <<0, 1021, 32259085, 15665255>>,
      <<0, 1021, 30643238, 35851430>>, <<0, 1021, 29103739, 8856027>>,
      <<0, 1021, 27634758, 11014659>>, <<0, 1021, 26231071, 23349536>>,
      <<0, 1021, 24887980, 45197044>>, <<0, 1021, 23601248, 9862549>>,
      <<0, 1021, 22367039, 30326299>>, <<0, 1021, 21181875, 55060643>>,
      <<0, 1021, 20042592, 49477619>>, <<0, 1021, 18946304, 24032573>>,
      <<0, 1021, 17890372, 49121790>>, <<0, 1021, 16872381, 5253350>>,
      <<0, 1021, 15890110, 33737838>>, <<0, 1021, 14941519, 42996113>>,
      <<0, 1021, 14024726, 53881428>>, <<0, 1021, 13137994, 17976472>>,
      <<0, 1021, 12279714, 28356132>>, <<0, 1021, 11448397, 33514550>>,
      <<0, 1021, 10642660, 46801536>>, <<0, 1021, 9861218, 33928367>>,
      <<0, 1021, 9102874, 5073705>>, <<0, 1021, 8366511, 34312744>>,
      <<0, 1021, 7651088, 64567743>>, <<0, 1021, 6955632, 28425049>>,
      <<0, 1021, 6279230, 10751485>>, <<0, 1021, 5621027, 45582905>>,
      <<0, 1021, 4980223, 12817200>>, <<0, 1021, 4356063, 33684552>>,
      <<0, 1021, 3747840, 19607159>>, <<0, 1021, 3154886, 49362549>>,
      <<0, 1021, 2576574, 28585807>>, <<0, 1021, 2012310, 38734919>>,
      <<0, 1021, 1461535, 31438481>>, <<0, 1021, 923720, 7396912>> >>,
    <<
      <<0, 1024, 1058138, 28540614>>, <<0, 1023, 29293835, 22559474>>,
      <<0, 1023, 11603610, 26855634>>, <<0, 1023, 1058138, 28540614>>,
      <<0, 1022, 54831976, 66858555>>, <<0, 1022, 44207384, 55343324>>,
      <<0, 1022, 35949956, 39807046>>, <<0, 1022, 29293835, 22559474>>,
      <<0, 1022, 23780472, 38054152>>, <<0, 1022, 19116331, 38389837>>,
      <<0, 1022, 15103634, 15323462>>, <<0, 1022, 11603610, 26855634>>,
      <<0, 1022, 8515635, 16293104>>, <<0, 1022, 5764726, 60567036>>,
      <<0, 1022, 3293713, 25125955>>, <<0, 1022, 1058138, 28540614>>,
      <<0, 1021, 65154548, 21512697>>, <<0, 1021, 61428068, 30079299>>,
      <<0, 1021, 57999799, 6525063>>, <<0, 1021, 54831976, 66858555>>,
      <<0, 1021, 51893211, 41853482>>, <<0, 1021, 49157165, 66510842>>,
      <<0, 1021, 46601556, 36902456>>, <<0, 1021, 44207384, 55343324>>,
      <<0, 1021, 41958339, 59086755>>, <<0, 1021, 39840328, 31998986>>,
      <<0, 1021, 37841101, 58177133>>, <<0, 1021, 35949956, 39807046>>,
      <<0, 1021, 34157492, 36442702>>, <<0, 1021, 32455415, 50258233>>,
      <<0, 1021, 30836376, 31596893>>, <<0, 1021, 29293835, 22559474>>,
      <<0, 1021, 27821951, 64811354>>, <<0, 1021, 26415491, 50649964>>,
      <<0, 1021, 25069747, 27575999>>, <<0, 1021, 23780472, 38054152>>,
      <<0, 1021, 22543825, 22204567>>, <<0, 1021, 21356320, 4109426>>,
      <<0, 1021, 20214785, 66458343>>, <<0, 1021, 19116331, 38389837>>,
      <<0, 1021, 18058313, 43178920>>, <<0, 1021, 17038310, 43538097>>,
      <<0, 1021, 16054099, 20785311>>, <<0, 1021, 15103634, 15323462>>,
      <<0, 1021, 14185029, 66941991>>, <<0, 1021, 13296545, 31031204>>,
      <<0, 1021, 12436569, 55942826>>, <<0, 1021, 11603610, 26855634>>,
      <<0, 1021, 10796281, 42204825>>, <<0, 1021, 10013295, 31469352>>,
      <<0, 1021, 9253452, 47460475>>, <<0, 1021, 8515635, 16293104>>,
      <<0, 1021, 7798799, 11182619>>, <<0, 1021, 7101968, 36895549>>,
      <<0, 1021, 6424229, 57408772>>, <<0, 1021, 5764726, 60567036>>,
      <<0, 1021, 5122656, 21282940>>, <<0, 1021, 4497263, 28027164>>,
      <<0, 1021, 3887838, 32521203>>, <<0, 1021, 3293713, 25125955>>,
      <<0, 1021, 2714258, 29480690>>, <<0, 1021, 2148879, 48443959>>,
      <<0, 1021, 1597016, 26538030>>, <<0, 1021, 1058138, 28540614>> >>,
    <<
      <<0, 1024, 1190147, 48589558>>, <<0, 1023, 29480524, 45420458>>,
      <<0, 1023, 11756041, 40837137>>, <<0, 1023, 1190147, 48589558>>,
      <<0, 1022, 55068122, 27434662>>, <<0, 1022, 44422955, 7170181>>,
      <<0, 1022, 36149535, 59949187>>, <<0, 1022, 29480524, 45420458>>,
      <<0, 1022, 23956484, 64786077>>, <<0, 1022, 19283311, 39903267>>,
      <<0, 1022, 15262843, 29057599>>, <<0, 1022, 11756041, 40837137>>,
      <<0, 1022, 8662086, 27556869>>, <<0, 1022, 5905850, 52280056>>,
      <<0, 1022, 3430051, 66565466>>, <<0, 1022, 1190147, 48589558>>,
      <<0, 1021, 65410683, 65956780>>, <<0, 1021, 61676987, 38190989>>,
      <<0, 1021, 58242079, 11974868>>, <<0, 1021, 55068122, 27434662>>,
      <<0, 1021, 52123665, 63685506>>, <<0, 1021, 49382321, 54194832>>,
      <<0, 1021, 46821763, 18959947>>, <<0, 1021, 44422955, 7170181>>,
      <<0, 1021, 42169554, 50899747>>, <<0, 1021, 40047441, 47285661>>,
      <<0, 1021, 38044343, 32079894>>, <<0, 1021, 36149535, 59949187>>,
      <<0, 1021, 34353600, 42549270>>, <<0, 1021, 32648227, 45019662>>,
      <<0, 1021, 31026053, 2054387>>, <<0, 1021, 29480524, 45420458>>,
      <<0, 1021, 28005790, 61746465>>, <<0, 1021, 26596607, 1237287>>,
      <<0, 1021, 25248256, 37830710>>, <<0, 1021, 23956484, 64786077>>,
      <<0, 1021, 22717442, 59801534>>, <<0, 1021, 21527637, 63726854>>,
      <<0, 1021, 20383893, 15613634>>, <<0, 1021, 19283311, 39903267>>,
      <<0, 1021, 18223244, 50582618>>, <<0, 1021, 17201266, 31202771>>,
      <<0, 1021, 16215149, 9688389>>, <<0, 1021, 15262843, 29057599>>,
      <<0, 1021, 14342460, 18289775>>, <<0, 1021, 13452255, 9147654>>,
      <<0, 1021, 12590614, 7753391>>, <<0, 1021, 11756041, 40837137>>,
      <<0, 1021, 10947149, 26769981>>, <<0, 1021, 10162646, 63179912>>,
      <<0, 1021, 9401332, 47028277>>, <<0, 1021, 8662086, 27556869>>,
      <<0, 1021, 7943862, 9423358>>, <<0, 1021, 7245682, 4780121>>, <<0, 1021, 6566630, 60207248>>,
      <<0, 1021, 5905850, 52280056>>, <<0, 1021, 5262536, 52831150>>,
      <<0, 1021, 4635932, 52252664>>, <<0, 1021, 4025327, 44248577>>,
      <<0, 1021, 3430051, 66565466>>, <<0, 1021, 2849474, 61013484>>,
      <<0, 1021, 2283001, 20369250>>, <<0, 1021, 1730069, 17596503>>,
      <<0, 1021, 1190147, 48589558>> >>,
    <<
      <<0, 1024, 1319829, 24731491>>, <<0, 1023, 29663922, 14578869>>,
      <<0, 1023, 11905785, 4914243>>, <<0, 1023, 1319829, 24731491>>,
      <<0, 1022, 55300103, 66223968>>, <<0, 1022, 44634724, 23186759>>,
      <<0, 1022, 36345596, 7447919>>, <<0, 1022, 29663922, 14578869>>,
      <<0, 1022, 24129393, 55344943>>, <<0, 1022, 19447347, 22919234>>,
      <<0, 1022, 15419245, 25566962>>, <<0, 1022, 11905785, 4914243>>,
      <<0, 1022, 8805955, 18650692>>, <<0, 1022, 6044486, 19358828>>,
      <<0, 1022, 3563986, 41500884>>, <<0, 1022, 1319829, 24731491>>,
      <<0, 1021, 65662303, 22309937>>, <<0, 1021, 61921517, 41808113>>,
      <<0, 1021, 58480087, 17150062>>, <<0, 1021, 55300103, 66223968>>,
      <<0, 1021, 52350056, 52874166>>, <<0, 1021, 49603507, 37821785>>,
      <<0, 1021, 47038087, 14726283>>, <<0, 1021, 44634724, 23186759>>,
      <<0, 1021, 42377045, 26148613>>, <<0, 1021, 40250903, 532352>>,
      <<0, 1021, 38244001, 28921945>>, <<0, 1021, 36345596, 7447919>>,
      <<0, 1021, 34546250, 56952652>>, <<0, 1021, 32837639, 56111407>>,
      <<0, 1021, 31212385, 7919935>>, <<0, 1021, 29663922, 14578869>>,
      <<0, 1021, 28186388, 22389958>>, <<0, 1021, 26774528, 51460751>>,
      <<0, 1021, 25423618, 10299805>>, <<0, 1021, 24129393, 55344943>>,
      <<0, 1021, 22887999, 9349505>>, <<0, 1021, 21695935, 5027145>>,
      <<0, 1021, 20550018, 46383922>>, <<0, 1021, 19447347, 22919234>>,
      <<0, 1021, 18385267, 48041850>>, <<0, 1021, 17361348, 64581621>>,
      <<0, 1021, 16373359, 17946895>>, <<0, 1021, 15419245, 25566962>>,
      <<0, 1021, 14497114, 44149312>>, <<0, 1021, 13605219, 17383556>>,
      <<0, 1021, 12741942, 14180028>>, <<0, 1021, 11905785, 4914243>>,
      <<0, 1021, 11095356, 66612483>>, <<0, 1021, 10309364, 65350186>>,
      <<0, 1021, 9546605, 13422268>>, <<0, 1021, 8805955, 18650692>>,
      <<0, 1021, 8086367, 19527560>>, <<0, 1021, 7386861, 37827461>>,
      <<0, 1021, 6706521, 3500495>>, <<0, 1021, 6044486, 19358828>>,
      <<0, 1021, 5399950, 54669427>>, <<0, 1021, 4772157, 3475249>>,
      <<0, 1021, 4160392, 37306825>>, <<0, 1021, 3563986, 41500884>>,
      <<0, 1021, 2982307, 11699043>>, <<0, 1021, 2414757, 66174784>>,
      <<0, 1021, 1860776, 4965280>>, <<0, 1021, 1319829, 24731491>> >> >>
\* math.sqrt(math.log(N) / n) for 1 <= N, n <= 64
SqrtLogOver(N, n) == SqrtLogTable[N][n]

\* math.log that also raises for a parent visited once
log_raises_below_two(t, c) == t[c].parent = 0 \/ t[t[c].parent].visits < 2

\* whether math.log(self.parent.visits) raises: the node has no parent, or a parent
\* that has no visit
log_raises(t, c) == t[c].parent = 0 \/ t[t[c].parent].visits < 1

\* get_ucb_value giving an unvisited node the value 0
get_ucb_value_zero(t, c, C) ==
    IF t[c].visits = 0 THEN [kind |-> "num", v |-> Zero]
    ELSE IF log_raises(t, c) THEN [kind |-> "error", v |-> Zero]
    ELSE [kind |-> "num",
          v |-> FloatAdd(FloatDivInt(t[c].value, t[c].visits),
                          FloatMul(IntToFloat(C), SqrtLogOver(t[t[c].parent].visits, t[c].visits)))]

\* MCTSNode.get_ucb_value: "inf" (float('inf')) for an unvisited node, "error" where the
\* code raises, else the float value / visits + C * math.sqrt(math.log(parent.visits) / visits),
\* for a whole exploration constant C
get_ucb_value(t, c, C) ==
    IF t[c].visits = 0 THEN [kind |-> "inf", v |-> PosInf]
    ELSE IF log_raises(t, c) THEN [kind |-> "error", v |-> Zero]
    ELSE [kind |-> "num",
          v |-> FloatAdd(FloatDivInt(t[c].value, t[c].visits),
                          FloatMul(IntToFloat(C), SqrtLogOver(t[t[c].parent].visits, t[c].visits)))]

\* a > b on two keys of max()
UcbGreater(a, b) == FloatGreater(a.v, b.v)

----------------------------------------------------------------------------
(* MCTS *)

\* max(node.children, key=get_ucb_value): the first child is kept unless a later one is greater
RECURSIVE best_ucb_from(_, _, _, _, _)
best_ucb_from(t, kids, i, best, C) ==
    IF i > Len(kids) THEN best
    ELSE best_ucb_from(t, kids, i + 1,
             IF UcbGreater(get_ucb_value(t, kids[i], C), get_ucb_value(t, best, C)) THEN kids[i] ELSE best, C)

best_ucb_child(t, n, C) == best_ucb_from(t, t[n].children, 2, t[n].children[1], C)

\* whether a key of that max() raises
UcbRaises(t, n, C) ==
    \E k \in 1..Len(t[n].children) :
        t[t[n].children[k]].visits # 0 /\ log_raises(t, t[n].children[k])

\* select that never descends: it returns the node it was given
select_first(t, n, C) == n

\* MCTS.select: the node reached, 0 when get_ucb_value raised on the way
RECURSIVE select(_, _, _)
select(t, n, C) ==
    IF t[n].children = <<>> THEN n
    ELSE IF ~is_fully_expanded(t[n], <<>>) THEN n
    ELSE IF UcbRaises(t, n, C) THEN 0
    ELSE select(t, best_ucb_child(t, n, C), C)

\* expand: expanded_actions
expanded_actions(t, n) == {t[t[n].children[k]].action : k \in 1..Len(t[n].children)}

\* unexpanded_actions without the filter: every available action stays eligible
unexpanded_actions_all(t, n, available_actions) == available_actions

\* expand: unexpanded_actions, in the order of available_actions
unexpanded_actions(t, n, available_actions) ==
    SelectSeq(available_actions, LAMBDA a : a \notin expanded_actions(t, n))

\* what np.random.choice(unexpanded_actions) can return
ExpandChoices(t, n, available_actions) ==
    LET u == unexpanded_actions(t, n, available_actions) IN {u[k] : k \in 1..Len(u)}

\* MCTS.expand with the drawn action: [tree, node]
expand(t, n, available_actions, action) ==
    IF available_actions = <<>> THEN [tree |-> t, node |-> n]
    ELSE IF unexpanded_actions(t, n, available_actions) # <<>>
         THEN [tree |-> add_child(t, n, t[n].state, action), node |-> Len(t) + 1]
         ELSE [tree |-> t, node |-> n]

\* simulation_steps of MCTS.simulate
SimulationSteps == 10

\* total_reward after step k of MCTS.simulate, given what np.random.normal returned
RECURSIVE total_reward(_, _)
total_reward(draws, k) ==
    IF k = 0 THEN Zero ELSE FloatAdd(total_reward(draws, k - 1), draws[k])

\* MCTS.simulate: the sum of the draws of its simulation_steps steps
simulate(draws) == total_reward(draws, SimulationSteps)

\* what the ten calls of np.random.normal in one simulate can return: any ten floats
\* other than inf, -inf and nan
SimDraws == [1..SimulationSteps -> {x \in Floats : x[2] < 2047}]

\* backpropagate that stops below the root
RECURSIVE backpropagate_below_root(_, _, _)
backpropagate_below_root(t, n, value) ==
    IF n = 0 \/ t[n].parent = 0 THEN t
    ELSE backpropagate_below_root([t EXCEPT ![n].visits = @ + 1, ![n].value = FloatAdd(@, value)], t[n].parent, value)

\* backpropagate that credits every node of the arena
backpropagate_all(t, n, value) ==
    [m \in 1..Len(t) |-> [t[m] EXCEPT !.visits = @ + 1, !.value = FloatAdd(@, value)]]

\* MCTS.backpropagate
RECURSIVE backpropagate(_, _, _)
backpropagate(t, n, value) ==
    IF n = 0 THEN t
    ELSE backpropagate([t EXCEPT ![n].visits = @ + 1, ![n].value = FloatAdd(@, value)], t[n].parent, value)

----------------------------------------------------------------------------
(* Planner *)

basic_subgoals == <<
    [key |-> <<"s","u","r","v","i","v","e">>, subgoals |-> <<<<"f","i","n","d"," ","f","o","o","d">>, <<"f","i","n","d"," ","s","h","e","l","t","e","r">>, <<"a","v","o","i","d"," ","e","n","e","m","i","e","s">>>>],
    [key |-> <<"c","o","l","l","e","c","t"," ","w","o","o","d">>, subgoals |-> <<<<"f","i","n","d"," ","t","r","e","e","s">>, <<"c","h","o","p"," ","w","o","o","d">>, <<"g","a","t","h","e","r"," ","r","e","s","o","u","r","c","e","s">>>>],
    [key |-> <<"m","a","k","e"," ","w","o","o","d","_","p","i","c","k","a","x","e">>, subgoals |-> <<<<"c","o","l","l","e","c","t"," ","w","o","o","d">>, <<"c","r","a","f","t"," ","p","i","c","k","a","x","e">>, <<"u","s","e"," ","w","o","r","k","b","e","n","c","h">>>>],
    [key |-> <<"p","l","a","c","e"," ","f","u","r","n","a","c","e">>, subgoals |-> <<<<"c","o","l","l","e","c","t"," ","s","t","o","n","e">>, <<"f","i","n","d"," ","l","o","c","a","t","i","o","n">>, <<"p","l","a","c","e"," ","b","u","i","l","d","i","n","g">>>>],
    [key |-> <<"d","e","f","e","a","t"," ","z","o","m","b","i","e">>, subgoals |-> <<<<"f","i","n","d"," ","w","e","a","p","o","n">>, <<"a","p","p","r","o","a","c","h"," ","e","n","e","m","y">>, <<"a","t","t","a","c","k">>>>] >>

\* the `for key, subgoals in basic_subgoals.items()` loop, from entry i on
RECURSIVE basic_from(_, _)
basic_from(i, goal) ==
    IF i > Len(basic_subgoals) THEN <<<<"e","x","p","l","o","r","e">>, <<"g","a","t","h","e","r"," ","r","e","s","o","u","r","c","e","s">>, <<"s","u","r","v","i","v","e">>>>
    ELSE IF Contains(basic_subgoals[i].key, LowerStr(goal))
         THEN basic_subgoals[i].subgoals
         ELSE basic_from(i + 1, goal)

\* Planner._generate_basic_subgoals
generate_basic_subgoals(goal) == basic_from(1, goal)

\* Planner._generate_subgoals takes the oracle path (self.llm set and subgoal generation on)
AsksLlm(c, g) == g.present /\ c.subgoal_enabled

\* subgoals[:self.max_subgoals] raises TypeError: max_subgoals is not an integer
slice_raises(c) == ~c.max_subgoals_is_int

\* Planner._generate_subgoals: the built-in table without an oracle, the oracle's list
\* cut to max_subgoals, and the built-in table again when the cut raises (except Exception)
planner_generate_subgoals(c, g, observation, goal, backend) ==
    IF ~AsksLlm(c, g) THEN generate_basic_subgoals(goal)
    ELSE IF slice_raises(c) THEN generate_basic_subgoals(goal)
    ELSE SliceTo(generate_subgoals(g, goal, observation, backend), c.max_subgoals)

\* max(current.children, key=visits) where a later child of equal visits replaces the kept one
RECURSIVE best_visits_last(_, _, _, _)
best_visits_last(t, kids, i, best) ==
    IF i > Len(kids) THEN best
    ELSE best_visits_last(t, kids, i + 1, IF t[kids[i]].visits >= t[best].visits THEN kids[i] ELSE best)

\* max(current.children, key=lambda c: c.visits), from child i on with `best` kept so far
RECURSIVE best_visits_from(_, _, _, _)
best_visits_from(t, kids, i, best) ==
    IF i > Len(kids) THEN best
    ELSE best_visits_from(t, kids, i + 1, IF t[kids[i]].visits > t[best].visits THEN kids[i] ELSE best)

best_visits_child(t, n) == best_visits_from(t, t[n].children, 2, t[n].children[1])

\* the `while current.children` loop of _refine_plan_with_mcts: best_plan
RECURSIVE best_plan_from(_, _, _)
best_plan_from(t, current, best_plan) ==
    IF t[current].children = <<>> THEN best_plan
    ELSE LET best_child == best_visits_child(t, current)
         IN  best_plan_from(t, best_child,
                 IF Truthy(t[best_child].action) THEN Append(best_plan, t[best_child].action)
                 ELSE best_plan)

\* plan extraction that returns best_plan as it is
extract_plan_bare(t, candidates) == best_plan_from(t, 1, <<>>)

\* _refine_plan_with_mcts, lines 96-105, in an arena where the call's root is `root`
extract_plan_at(t, root, candidates) ==
    LET best_plan == best_plan_from(t, root, <<>>)
    IN  IF best_plan # <<>> THEN best_plan ELSE candidates

\* _refine_plan_with_mcts, lines 96-105: `best_plan if best_plan else subgoals`
extract_plan(t, candidates) ==
    LET best_plan == best_plan_from(t, 1, <<>>)
    IN  IF best_plan # <<>> THEN best_plan ELSE candidates

\* a planner that never takes the early return
plan_disabled_never(c) == FALSE

\* Planner.plan: `if not self.enabled`
plan_disabled(c) == ~c.enabled

\* update_plan replanning on every reward that is not positive
replans_nonpositive(reward) == reward <= 0

\* Planner.update_plan: `if reward < 0`
replans(reward) == reward < 0

\* the goal update_plan hands to plan, had it been the executed action's name
replan_goal_other == <<"r","e","t","r","y">>

\* Planner.update_plan: the goal of the replanning call
replan_goal == <<"r","e","c","o","v","e","r"," ","f","r","o","m"," ","f","a","i","l","u","r","e">>

\* a loop that runs one more pass than the budget
loop_continues_inclusive(c, i) == i <= c.mcts_simulations

\* the simulation loop goes on: `for _ in range(self.mcts_simulations)`
loop_continues(c, i) == i < c.mcts_simulations

\* what np.random.choice draws in the iteration that selected `node` (None: nothing is drawn)
DrawChoices(t, node, max_depth, candidates) ==
    IF t[node].depth < max_depth /\ ExpandChoices(t, node, candidates) # {}
    THEN ExpandChoices(t, node, candidates) ELSE {NoneText}

\* the loop body without the depth test: it expands at any depth
search_iteration_uncapped(t, node, max_depth, candidates, action, value) ==
    LET grown == expand(t, node, candidates, action)
    IN  backpropagate(grown.tree, grown.node, value)

\* the loop body that simulates the selected node instead of the node expand returned
search_iteration_from_selected(t, node, max_depth, candidates, action, value) ==
    LET grown == IF t[node].depth < max_depth
                 THEN expand(t, node, candidates, action)
                 ELSE [tree |-> t, node |-> node]
    IN  backpropagate(grown.tree, node, value)

\* the loop body of _refine_plan_with_mcts after select returned `node`:
\* expand below max_depth, simulate (value), backpropagate
search_iteration(t, node, max_depth, candidates, action, value) ==
    LET grown == IF t[node].depth < max_depth
                 THEN expand(t, node, candidates, action)
                 ELSE [tree |-> t, node |-> node]
    IN  backpropagate(grown.tree, grown.node, value)

\* a root that is the first node of the arena when there is one already
new_root_reused(t, state) ==
    IF t = <<>> THEN [tree |-> <<NewNode(t, state, NoneText, 0)>>, node |-> 1]
    ELSE [tree |-> t, node |-> 1]

\* `root = MCTSNode(state=observation, action=None, parent=None)`: a fresh object: [tree, node]
new_root(t, state) ==
    [tree |-> Append(t, NewNode(t, state, NoneText, 0)), node |-> Len(t) + 1]

----------------------------------------------------------------------------
(* MCTS.search *)

\* `if node.depth < 10` in MCTS.search
SearchDepthLimit == 10

\* the dummy actions MCTS.search expands with
SearchActions == <<<<"a","c","t","i","o","n","1">>, <<"a","c","t","i","o","n","2">>, <<"a","c","t","i","o","n","3">>>>

\* the loop of MCTS.search goes on: `for _ in range(num_simulations)`
search_continues(num_simulations, i) == i < num_simulations

\* MCTS.search returning its root
search_result_root(t) == [kind |-> "node", value |-> <<1>>]

\* MCTS.search, lines 112-115: the most visited child of the root, None without children
search_result(t) ==
    IF t[1].children # <<>> THEN [kind |-> "node", value |-> <<best_visits_child(t, 1)>>]
    ELSE [kind |-> "None", value |-> <<>>]

----------------------------------------------------------------------------
(* Inputs *)

Goals == {<<"c","o","l","l","e","c","t"," ","w","o","o","d">>, <<"C","o","l","l","e","c","t"," ","W","o","o","d"," ","n","o","w">>, <<"d","e","f","e","a","t"," ","z","o","m","b","i","e">>, <<"r","e","c","o","v","e","r"," ","f","r","o","m"," ","f","a","i","l","u","r","e">>, <<"s","u","r","v","i","v","e"," ","a","n","d"," ","e","x","p","l","o","r","e">>, <<"e","x","p","l","o","r","e"," ","t","o"," ","s","u","r","v","i","v","e">>, <<"c","r","a","f","t"," ","a"," ","t","a","b","l","e">>, <<"m","a","k","e"," ","w","o","o","d","_","p","i","c","k","a","x","e">>, <<"p","l","a","c","e"," ","f","u","r","n","a","c","e">>, <<"r","e","s","t">>}

PlanGoals == {<<"C","o","l","l","e","c","t"," ","W","o","o","d"," ","n","o","w">>, <<"d","e","f","e","a","t"," ","z","o","m","b","i","e">>}

\* an observation: None, or a value with the text _format_state_info gives it
NoObservation == [isNone |-> TRUE, info |-> <<>>]

DictObservation == [isNone |-> FALSE, info |-> <<"{","'","t","a","s","k","'",":"," ","'","c","r","a","f","t","'","}">>]

Observations == {NoObservation, DictObservation}

Responses == {<<>>, <<"1","."," ","F","i","n","d"," ","t","r","e","e","s","\n","2","."," ","C","h","o","p"," ","w","o","o","d","\n","\n","3","."," ","R","e","t","u","r","n">>, <<"-">>, <<"o","k","\n","*"," ","g","o">>, <<"6","."," ","M","i","n","e"," ","o","r","e">>,
              <<"-"," ","F","i","n","d"," ","t","r","e","e","s","\n","*"," ","C","h","o","p"," ","w","o","o","d","\n","1","."," ","G","a","t","h","e","r"," ","l","o","g","s","\n","2","."," ","G","o"," ","h","o","m","e","\n","3","."," ","S","t","o","r","e"," ","w","o","o","d","\n","4","."," ","R","e","s","t">>}

\* what the backend does with a request: a 200 answer with a text, another status, an exception
Backends == {[status |-> "ok", text |-> r] : r \in Responses}
            \cup {[status |-> "http_error", text |-> <<>>], [status |-> "exception", text |-> <<>>]}

PlanBackends == {b \in Backends : b.status # "ok" \/ b.text \in {<<>>, <<"1","."," ","F","i","n","d"," ","t","r","e","e","s","\n","2","."," ","C","h","o","p"," ","w","o","o","d","\n","\n","3","."," ","R","e","t","u","r","n">>, <<"-">>}}

Rewards == {-1, 0, 1}

ExecutedActions == {<<"a","t","t","a","c","k">>}

ExplorationConstants == {0, 2}

\* exploration constants of the planners of Spec (1.0 is the constructor's default)
PlanExplorationConstants == {1}

MaxSubgoalsChoices == {0, 2, 5}

\* ten draws: the given ones, then 0.0 up to simulation_steps
Padded(head) == [k \in 1..SimulationSteps |-> IF k <= Len(head) THEN head[k] ELSE Zero]

\* the draws of one simulate tried in the searches: 2.0 at the first step, 2.0 at the last
\* step, eight times 0.25, -1.0 at the first step, 0.5 then -1.5
DrawsTried ==
    {Padded(<<IntToFloat(2)>>),
     [k \in 1..SimulationSteps |-> IF k = SimulationSteps THEN IntToFloat(2) ELSE Zero],
     [k \in 1..SimulationSteps |-> IF k <= 8 THEN FloatDivInt(IntToFloat(1), 4) ELSE Zero],
     Padded(<<IntToFloat(-1)>>),
     Padded(<<FloatDivInt(IntToFloat(1), 2), FloatDivInt(IntToFloat(-3), 2)>>)}

\* what MCTS.simulate returns on the draws tried
ValuesTried == {simulate(draws) : draws \in DrawsTried}

\* the draws tried in MCTS.search: those above, ten times 0.0, ten times 0.5, ten times
\* 1.0, -0.25 once, and the first ten draws of random.Random(0).gauss(0, 1)
SearchDrawsTried ==
    DrawsTried
    \cup {Padded(<<>>),
          [k \in 1..SimulationSteps |-> FloatDivInt(IntToFloat(1), 2)],
          [k \in 1..SimulationSteps |-> IntToFloat(1)],
          Padded(<<FloatDivInt(IntToFloat(-1), 4)>>),
          <<<<0, 1022, 59286038, 2606464>>,
            <<1, 1023, 26613906, 6292612>>,
            <<1, 1022, 24120864, 61059647>>,
            <<0, 1021, 32347430, 5431052>>,
            <<1, 1023, 1097155, 48091396>>,
            <<1, 1019, 10329420, 54503408>>,
            <<0, 1020, 29096517, 36939994>>,
            <<1, 1022, 44439384, 27934396>>,
            <<1, 1023, 20739146, 31032584>>,
            <<0, 1020, 36983824, 31542947>>>>}

\* what MCTS.simulate returns on them
SearchValuesTried == {simulate(draws) : draws \in SearchDrawsTried}

\* Planner.__init__: the configurations; max_subgoals is a whole number, or
\* (max_subgoals_is_int false) a string, '2', which the constructor takes as it is
Configs ==
    [enabled : BOOLEAN, mcts_simulations : 0..MaxSims, max_depth : 0..MaxDepthCfg,
     exploration_constant : PlanExplorationConstants, subgoal_enabled : BOOLEAN,
     max_subgoals : MaxSubgoalsChoices, max_subgoals_is_int : {TRUE}]
    \cup [enabled : {TRUE}, mcts_simulations : 0..MaxSims, max_depth : 0..MaxDepthCfg,
          exploration_constant : PlanExplorationConstants, subgoal_enabled : {TRUE},
          max_subgoals : {2}, max_subgoals_is_int : {FALSE}]

\* SubGoalGenerator.__init__ / _initialize_llm: disabled by configuration or by a failed
\* import of the client (no client either way), or enabled with a client
\* (probe: what LlamaClient._test_connection met when the client was built)
LlmAbsent == [present |-> FALSE, enabled |-> FALSE, llm_client |-> FALSE, probe |-> "none"]

LlmDisabled == [present |-> TRUE, enabled |-> FALSE, llm_client |-> FALSE, probe |-> "none"]

LlmRemote == [present |-> TRUE, enabled |-> TRUE, llm_client |-> TRUE, probe |-> "ok"]

\* LlamaClient.__init__ whose probe failed: _test_connection prints a warning and returns
LlmRemoteProbeFailed == [present |-> TRUE, enabled |-> TRUE, llm_client |-> TRUE, probe |-> "failed"]

\* Planner.__init__: self.llm stays None when subgoal generation is off or the import
\* fails; otherwise it is the SubGoalGenerator, whatever became of its client's probe
LlmStates(c) ==
    IF c.subgoal_enabled THEN {LlmAbsent, LlmDisabled, LlmRemote, LlmRemoteProbeFailed}
    ELSE {LlmAbsent}

NoCall == [op |-> "none", goal |-> NoneText, obs |-> NoObservation, reward |-> 0,
           executed_action |-> NoneText, node |-> 0, num_simulations |-> 0]

NoOracle == [requested |-> FALSE, generated |-> FALSE, backend |-> "none", response |-> <<>>, ret |-> <<>>]

NoAnalysis == [task |-> NoneText, analysis |-> <<>>, complexity |-> "none", estimated_steps |-> 0]

Pending == [kind |-> "pending", value |-> <<>>]

NoneResult == [kind |-> "None", value |-> <<>>]

ListResult(l) == [kind |-> "list", value |-> l]

\* the call ended with an exception that reached the caller
RaisedResult == [kind |-> "raised", value |-> <<>>]

----------------------------------------------------------------------------
(* Spec: the Planner *)

Init ==
    /\ cfg \in Configs
    /\ llm \in LlmStates(cfg)
    /\ pc = "idle"
    /\ call = NoCall
    /\ oracle = NoOracle
    /\ subgoals = <<>>
    /\ tree = <<>>
    /\ iter = 0
    /\ selected = 0
    /\ result = Pending
    /\ analysis = NoAnalysis
    /\ runs = <<>>

\* what Planner._generate_subgoals leaves behind: the request, and the oracle's answer
OracleTrace(observation, goal, backend) ==
    [requested |-> TRUE,
     generated |-> AsksLlm(cfg, llm),
     backend |-> IF AsksLlm(cfg, llm) /\ UsesBackend(llm) THEN backend.status ELSE "none",
     response |-> IF AsksLlm(cfg, llm) /\ UsesBackend(llm)
                  THEN llama_generate(create_subgoal_prompt(goal, observation), backend) ELSE <<>>,
     ret |-> IF AsksLlm(cfg, llm) THEN generate_subgoals(llm, goal, observation, backend) ELSE <<>>]

\* Planner.plan up to the first iteration of the search loop
StartPlan(observation, goal, backend) ==
    IF plan_disabled(cfg)
    THEN /\ pc' = "done"
         /\ result' = ListResult(<<>>)
         /\ UNCHANGED <<oracle, subgoals, tree, iter>>
    ELSE LET found == planner_generate_subgoals(cfg, llm, observation, goal, backend)
         IN  /\ oracle' = OracleTrace(observation, goal, backend)
             /\ subgoals' = found
             /\ IF found # <<>>
                THEN /\ pc' = "search"
                     /\ tree' = <<NewNode(<<>>, observation, NoneText, 0)>>
                     /\ iter' = 0
                     /\ UNCHANGED result
                ELSE /\ pc' = "done"
                     /\ result' = ListResult(<<>>)
                     /\ UNCHANGED <<tree, iter>>

\* a call of Planner.plan(observation, goal)
Plan(observation, goal, backend) ==
    /\ pc = "idle"
    /\ call' = [NoCall EXCEPT !.op = "plan", !.goal = goal, !.obs = observation]
    /\ StartPlan(observation, goal, backend)
    /\ UNCHANGED <<analysis, runs, cfg, llm, selected>>

\* a call of Planner.update_plan(current_state, executed_action, reward)
UpdatePlan(current_state, executed_action, reward, backend) ==
    /\ pc = "idle"
    /\ IF replans(reward)
       THEN /\ call' = [NoCall EXCEPT !.op = "update_plan", !.goal = replan_goal, !.obs = current_state,
                                      !.reward = reward, !.executed_action = executed_action]
            /\ StartPlan(current_state, replan_goal, backend)
       ELSE /\ call' = [NoCall EXCEPT !.op = "update_plan", !.obs = current_state,
                                      !.reward = reward, !.executed_action = executed_action]
            /\ pc' = "done"
            /\ result' = NoneResult
            /\ UNCHANGED <<oracle, subgoals, tree, iter>>
    /\ UNCHANGED <<analysis, runs, cfg, llm, selected>>

\* one pass of the loop of _refine_plan_with_mcts: select, expand, simulate, backpropagate
SearchIteration(action, value) ==
    /\ pc = "search"
    /\ loop_continues(cfg, iter)
    /\ LET node == select(tree, 1, cfg.exploration_constant)
       IN  IF node = 0
           THEN \* get_ucb_value raised inside select: nothing catches it on the way out of plan()
                /\ action = NoneText
                /\ pc' = "done"
                /\ result' = RaisedResult
                /\ UNCHANGED <<tree, iter, selected>>
           ELSE /\ action \in DrawChoices(tree, node, cfg.max_depth, subgoals)
                /\ selected' = node
                /\ tree' = search_iteration(tree, node, cfg.max_depth, subgoals, action, value)
                /\ iter' = iter + 1
                /\ UNCHANGED <<pc, result>>
    /\ UNCHANGED <<analysis, runs, cfg, llm, call, oracle, subgoals>>

\* the loop is over: extraction and return of _refine_plan_with_mcts, then of plan
FinishSearch ==
    /\ pc = "search"
    /\ ~loop_continues(cfg, iter)
    /\ result' = ListResult(extract_plan(tree, subgoals))
    /\ pc' = "done"
    /\ UNCHANGED <<analysis, runs, cfg, llm, call, oracle, subgoals, tree, iter, selected>>

\* the caller has the result; the locals of the call (tree included) are gone
Return ==
    /\ pc = "done"
    /\ pc' = "idle"
    /\ call' = NoCall
    /\ oracle' = NoOracle
    /\ subgoals' = <<>>
    /\ tree' = <<>>
    /\ iter' = 0
    /\ selected' = 0
    /\ result' = Pending
    /\ UNCHANGED <<analysis, runs, cfg, llm>>

Next ==
    \/ \E o \in Observations, g \in PlanGoals, b \in PlanBackends : Plan(o, g, b)
    \/ \E o \in Observations, a \in ExecutedActions, r \in Rewards, b \in PlanBackends : UpdatePlan(o, a, r, b)
    \/ \E a \in UNION {ExpandChoices(tree, n, subgoals) : n \in 1..Len(tree)} \cup {NoneText}, v \in ValuesTried :
           SearchIteration(a, v)
    \/ FinishSearch
    \/ Return

Spec == Init /\ [][Next]_vars

----------------------------------------------------------------------------
(* SpecOracle: a SubGoalGenerator of its own, called directly *)

DefaultConfig == [enabled |-> TRUE, mcts_simulations |-> 0, max_depth |-> 0,
                  exploration_constant |-> 1, subgoal_enabled |-> TRUE, max_subgoals |-> 5,
                  max_subgoals_is_int |-> TRUE]

\* the rationale texts a backend gives analyze_task
AnalysisResponses == {<<>>, <<"1","."," ","F","i","n","d"," ","t","r","e","e","s","\n","2","."," ","C","h","o","p"," ","w","o","o","d","\n","\n","3","."," ","R","e","t","u","r","n">>,
                      <<"F","i","r","s","t"," ","c","o","l","l","e","c","t"," ","w","o","o","d"," ","t","h","e","n"," ","c","r","a","f","t"," ","a"," ","t","a","b","l","e"," ","a","n","d"," ","p","l","a","c","e"," ","i","t"," ","n","e","a","r"," ","t","h","e"," ","b","a","s","e"," ","t","o"," ","u","s","e"," ","i","t"," ","a","n","d"," ","t","h","e","n"," ","m","o","v","e"," ","o","n"," ","t","o"," ","f","i","n","d"," ","a","n","d"," ","d","e","f","e","a","t"," ","t","h","e"," ","z","o","m","b","i","e">>}

AnalysisBackends == {[status |-> "ok", text |-> r] : r \in AnalysisResponses}
                    \cup {[status |-> "http_error", text |-> <<>>], [status |-> "exception", text |-> <<>>]}

Tasks == {<<"c","o","l","l","e","c","t"," ","w","o","o","d">>, <<"r","e","s","t">>}

InitOracle ==
    /\ cfg = DefaultConfig
    /\ llm \in {LlmDisabled, LlmRemote, LlmRemoteProbeFailed}
    /\ pc = "idle"
    /\ call = NoCall
    /\ oracle = NoOracle
    /\ subgoals = <<>>
    /\ tree = <<>>
    /\ iter = 0
    /\ selected = 0
    /\ result = Pending
    /\ analysis = NoAnalysis
    /\ runs = <<>>

\* a call of SubGoalGenerator.generate_subgoals(goal, current_state)
OracleGenerateSubgoals(goal, current_state, backend) ==
    /\ call' = [NoCall EXCEPT !.op = "generate_subgoals", !.goal = goal, !.obs = current_state]
    /\ oracle' = [requested |-> TRUE, generated |-> TRUE,
                  backend |-> IF UsesBackend(llm) THEN backend.status ELSE "none",
                  response |-> IF UsesBackend(llm)
                               THEN llama_generate(create_subgoal_prompt(goal, current_state), backend) ELSE <<>>,
                  ret |-> generate_subgoals(llm, goal, current_state, backend)]
    /\ result' = ListResult(generate_subgoals(llm, goal, current_state, backend))
    /\ analysis' = NoAnalysis
    /\ UNCHANGED <<runs, cfg, llm, pc, subgoals, tree, iter, selected>>

\* a call of SubGoalGenerator.analyze_task(task)
OracleAnalyzeTask(task, backend) ==
    /\ call' = [NoCall EXCEPT !.op = "analyze_task", !.goal = task]
    /\ oracle' = [requested |-> TRUE, generated |-> FALSE,
                  backend |-> IF UsesBackend(llm) THEN backend.status ELSE "none",
                  response |-> IF UsesBackend(llm)
                               THEN llama_generate(create_analysis_prompt(task), backend) ELSE <<>>,
                  ret |-> <<>>]
    /\ analysis' = analyze_task(llm, task, backend)
    /\ result' = Pending
    /\ UNCHANGED <<runs, cfg, llm, pc, subgoals, tree, iter, selected>>

NextOracle ==
    \/ \E g \in Goals, o \in Observations, b \in Backends : OracleGenerateSubgoals(g, o, b)
    \/ \E t \in Tasks, b \in AnalysisBackends : OracleAnalyzeTask(t, b)

SpecOracle == InitOracle /\ [][NextOracle]_vars

----------------------------------------------------------------------------
(* SpecTree: a tree built with add_child and backpropagate; select and extraction on it *)

TreeActions == {<<"a","t","t","a","c","k">>, <<"f","i","n","d"," ","w","e","a","p","o","n">>}

TreeCandidates == <<<<"f","i","n","d"," ","w","e","a","p","o","n">>, <<"a","p","p","r","o","a","c","h"," ","e","n","e","m","y">>, <<"a","t","t","a","c","k">>>>

InitTree ==
    /\ cfg \in {[DefaultConfig EXCEPT !.exploration_constant = c] : c \in ExplorationConstants}
    /\ llm = LlmAbsent
    /\ pc = "idle"
    /\ call = NoCall
    /\ oracle = NoOracle
    /\ subgoals = TreeCandidates
    /\ tree = <<NewNode(<<>>, NoObservation, NoneText, 0)>>
    /\ iter = 0
    /\ selected = 0
    /\ result = Pending
    /\ analysis = NoAnalysis
    /\ runs = <<>>

\* node.add_child(state, action) on node n
TreeAddChild(n, action) ==
    /\ Len(tree) < MaxNodes
    /\ tree' = add_child(tree, n, tree[n].state, action)
    /\ call' = NoCall
    /\ selected' = 0
    /\ result' = Pending
    /\ UNCHANGED <<analysis, runs, cfg, llm, pc, oracle, subgoals, iter>>

\* mcts.backpropagate(node n, value)
TreeBackpropagate(n, value) ==
    /\ tree[1].visits < MaxBackprops
    /\ tree' = backpropagate(tree, n, value)
    /\ call' = NoCall
    /\ selected' = 0
    /\ result' = Pending
    /\ UNCHANGED <<analysis, runs, cfg, llm, pc, oracle, subgoals, iter>>

\* mcts.select(node n)
TreeSelect(n) ==
    /\ call' = [NoCall EXCEPT !.op = "select", !.node = n]
    /\ selected' = select(tree, n, cfg.exploration_constant)
    /\ result' = Pending
    /\ UNCHANGED <<analysis, runs, cfg, llm, pc, oracle, subgoals, tree, iter>>

\* the extraction of _refine_plan_with_mcts on this tree, with TreeCandidates as subgoals
TreeExtract ==
    /\ call' = [NoCall EXCEPT !.op = "extract", !.node = 1]
    /\ result' = ListResult(extract_plan(tree, subgoals))
    /\ selected' = 0
    /\ UNCHANGED <<analysis, runs, cfg, llm, pc, oracle, subgoals, tree, iter>>

NextTree ==
    \/ \E n \in 1..Len(tree), a \in TreeActions : TreeAddChild(n, a)
    \/ \E n \in 1..Len(tree), v \in ValuesTried : TreeBackpropagate(n, v)
    \/ \E n \in 1..Len(tree) : TreeSelect(n)
    \/ TreeExtract

SpecTree == InitTree /\ [][NextTree]_vars

----------------------------------------------------------------------------
(* SpecE2E: plan() for "defeat zombie" with the oracle disabled, 50 simulations, depth 3 *)

\* Planner.__init__ with the end-to-end configuration (max_subgoals at its default)
E2EConfig == [enabled |-> TRUE, mcts_simulations |-> 50, max_depth |-> 3,
              exploration_constant |-> 1, subgoal_enabled |-> TRUE, max_subgoals |-> 5,
              max_subgoals_is_int |-> TRUE]

\* the oracle is disabled: built with llm.enabled false, or subgoal generation switched off
InitE2E ==
    /\ \/ cfg = E2EConfig /\ llm = LlmDisabled
       \/ cfg = [E2EConfig EXCEPT !.subgoal_enabled = FALSE] /\ llm = LlmAbsent
    /\ pc = "idle"
    /\ call = NoCall
    /\ oracle = NoOracle
    /\ subgoals = <<>>
    /\ tree = <<>>
    /\ iter = 0
    /\ selected = 0
    /\ result = Pending
    /\ analysis = NoAnalysis
    /\ runs = <<>>


\* the values of a node after 1, 2, ... simulations that all returned v: backpropagate
\* adds v to the value each time
RECURSIVE running_values(_, _, _)
running_values(v, sofar, k) ==
    IF k = 0 THEN sofar
    ELSE running_values(v, Append(sofar, FloatAdd(IF sofar = <<>> THEN Zero ELSE sofar[Len(sofar)], v)), k - 1)

\* the values of the root in the runs tried: <<v, running values of v>>
RootValues == {<<v, running_values(v, <<>>, E2EConfig.mcts_simulations)>> : v \in SearchValuesTried}

\* the runs of fifty simulations tried are those in which every simulate returns the
\* same value v, whichever of the values tried it is
SameValueAsBefore(t, v) ==
    IF t = <<>> THEN TRUE
    ELSE IF t[1].visits = 0 THEN TRUE
    ELSE \E r \in RootValues : r[1] = v /\ r[2][t[1].visits] = t[1].value

NextE2E ==
    \/ Plan(NoObservation, <<"d","e","f","e","a","t"," ","z","o","m","b","i","e">>, [status |-> "exception", text |-> <<>>])
    \/ \E a \in UNION {ExpandChoices(tree, n, subgoals) : n \in 1..Len(tree)} \cup {NoneText},
          v \in SearchValuesTried :
           SameValueAsBefore(tree, v) /\ SearchIteration(a, v)
    \/ FinishSearch
    \/ Return

SpecE2E == InitE2E /\ [][NextE2E]_vars

----------------------------------------------------------------------------
(* SpecPair: two plan() invocations, each by a Planner of its own, whose steps interleave; *)
(* the nodes of both are objects of one arena (tree)                                      *)

\* Planner.__init__: the configurations of the two planners (a budget of 1 or of MaxSims)
PairConfigs == {[DefaultConfig EXCEPT !.mcts_simulations = n, !.max_depth = 2, !.max_subgoals = 2] :
                    n \in {1, MaxSims}}

\* a planner that has not been called yet
NewRun(c) == [cfg |-> c, pc |-> "idle", subgoals |-> <<>>, root |-> 0, iter |-> 0,
              draws |-> <<>>, result |-> Pending]

InitPair ==
    /\ cfg = DefaultConfig
    /\ llm = LlmDisabled
    /\ pc = "idle"
    /\ call = NoCall
    /\ oracle = NoOracle
    /\ subgoals = <<>>
    /\ tree = <<>>
    /\ iter = 0
    /\ selected = 0
    /\ result = Pending
    /\ analysis = NoAnalysis
    /\ runs \in [1..2 -> {NewRun(c) : c \in PairConfigs}]

\* invocation i: Planner.plan up to the first iteration of the search loop
PairPlan(i, observation, goal, backend) ==
    /\ runs[i].pc = "idle"
    /\ IF plan_disabled(runs[i].cfg)
       THEN /\ runs' = [runs EXCEPT ![i].pc = "done", ![i].result = ListResult(<<>>)]
            /\ UNCHANGED tree
       ELSE LET found == planner_generate_subgoals(runs[i].cfg, llm, observation, goal, backend)
                made == new_root(tree, observation)
            IN  IF found # <<>>
                THEN /\ tree' = made.tree
                     /\ runs' = [runs EXCEPT ![i].pc = "search", ![i].subgoals = found,
                                             ![i].root = made.node]
                ELSE /\ runs' = [runs EXCEPT ![i].pc = "done", ![i].result = ListResult(<<>>)]
                     /\ UNCHANGED tree
    /\ UNCHANGED <<analysis, cfg, llm, pc, call, oracle, subgoals, iter, selected, result>>

\* invocation i: one pass of the loop of _refine_plan_with_mcts
PairIteration(i, action, value) ==
    /\ runs[i].pc = "search"
    /\ loop_continues(runs[i].cfg, runs[i].iter)
    /\ LET node == select(tree, runs[i].root, runs[i].cfg.exploration_constant)
       IN  IF node = 0
           THEN /\ action = NoneText
                /\ runs' = [runs EXCEPT ![i].pc = "done", ![i].result = RaisedResult]
                /\ UNCHANGED tree
           ELSE /\ action \in DrawChoices(tree, node, runs[i].cfg.max_depth, runs[i].subgoals)
                /\ tree' = search_iteration(tree, node, runs[i].cfg.max_depth, runs[i].subgoals, action, value)
                /\ runs' = [runs EXCEPT ![i].iter = @ + 1,
                                        ![i].draws = Append(@, [action |-> action, value |-> value])]
    /\ UNCHANGED <<analysis, cfg, llm, pc, call, oracle, subgoals, iter, selected, result>>

\* invocation i: the loop is over: extraction and return
PairFinish(i) ==
    /\ runs[i].pc = "search"
    /\ ~loop_continues(runs[i].cfg, runs[i].iter)
    /\ runs' = [runs EXCEPT ![i].pc = "done",
                            ![i].result = ListResult(extract_plan_at(tree, runs[i].root, runs[i].subgoals))]
    /\ UNCHANGED <<analysis, cfg, llm, pc, call, oracle, subgoals, tree, iter, selected, result>>

NextPair ==
    \E i \in 1..2 :
        \/ PairPlan(i, NoObservation, <<"d","e","f","e","a","t"," ","z","o","m","b","i","e">>, [status |-> "exception", text |-> <<>>])
        \/ \E a \in UNION {ExpandChoices(tree, n, runs[i].subgoals) : n \in 1..Len(tree)} \cup {NoneText},
              v \in ValuesTried : PairIteration(i, a, v)
        \/ PairFinish(i)

SpecPair == InitPair /\ [][NextPair]_vars

----------------------------------------------------------------------------
(* SpecSearch: MCTS.search called directly on an MCTS built with an exploration constant *)

InitSearch ==
    /\ cfg \in {[DefaultConfig EXCEPT !.exploration_constant = c] : c \in ExplorationConstants}
    /\ llm = LlmAbsent
    /\ pc = "idle"
    /\ call = NoCall
    /\ oracle = NoOracle
    /\ subgoals = <<>>
    /\ tree = <<>>
    /\ iter = 0
    /\ selected = 0
    /\ result = Pending
    /\ analysis = NoAnalysis
    /\ runs = <<>>

\* a call of MCTS.search(root_state, num_simulations): the root is made
MctsSearch(root_state, num_simulations) ==
    /\ pc = "idle"
    /\ call' = [NoCall EXCEPT !.op = "search", !.obs = root_state, !.num_simulations = num_simulations]
    /\ tree' = new_root(<<>>, root_state).tree
    /\ iter' = 0
    /\ pc' = "search"
    /\ UNCHANGED <<analysis, runs, cfg, llm, oracle, subgoals, selected, result>>

\* one pass of the loop of MCTS.search
MctsSearchIteration(action, value) ==
    /\ pc = "search"
    /\ search_continues(call.num_simulations, iter)
    /\ LET node == select(tree, 1, cfg.exploration_constant)
       IN  IF node = 0
           THEN /\ action = NoneText
                /\ pc' = "done"
                /\ result' = RaisedResult
                /\ UNCHANGED <<tree, iter, selected>>
           ELSE /\ action \in DrawChoices(tree, node, SearchDepthLimit, SearchActions)
                /\ selected' = node
                /\ tree' = search_iteration(tree, node, SearchDepthLimit, SearchActions, action, value)
                /\ iter' = iter + 1
                /\ UNCHANGED <<pc, result>>
    /\ UNCHANGED <<analysis, runs, cfg, llm, call, oracle, subgoals>>

\* the loop is over: MCTS.search returns
MctsSearchReturn ==
    /\ pc = "search"
    /\ ~search_continues(call.num_simulations, iter)
    /\ result' = search_result(tree)
    /\ pc' = "done"
    /\ UNCHANGED <<analysis, runs, cfg, llm, call, oracle, subgoals, tree, iter, selected>>

NextSearch ==
    \/ \E o \in Observations, n \in 0..MaxSims : MctsSearch(o, n)
    \/ \E a \in {SearchActions[k] : k \in 1..Len(SearchActions)} \cup {NoneText}, v \in SearchValuesTried :
           MctsSearchIteration(a, v)
    \/ MctsSearchReturn
    \/ Return

SpecSearch == InitSearch /\ [][NextSearch]_vars

-----------------------------------------------------------------------------
(* SpecExpand: mcts.expand called on any node of a growing tree, one candidate list per run *)

\* the most nodes a tree of SpecExpand holds
MaxExpandNodes == 4

ExpandCandidates ==
    { <<>>,
      <<<<"a","t","t","a","c","k">>>>,
      <<<<"f","i","n","d"," ","w","e","a","p","o","n">>, <<"a","t","t","a","c","k">>>>,
      <<<<"a","t","t","a","c","k">>, <<"a","t","t","a","c","k">>, <<"f","i","n","d"," ","w","e","a","p","o","n">>>>,
      TreeCandidates }

InitExpand ==
    /\ cfg = DefaultConfig
    /\ llm = LlmAbsent
    /\ pc = "idle"
    /\ call = NoCall
    /\ oracle = NoOracle
    /\ subgoals \in ExpandCandidates
    /\ tree = <<NewNode(<<>>, NoObservation, NoneText, 0)>>
    /\ iter = 0
    /\ selected = 0
    /\ result = Pending
    /\ analysis = NoAnalysis
    /\ runs = <<>>

\* mcts.expand(node n, subgoals) with the action np.random.choice drew
MctsExpand(n, action) ==
    LET grown == expand(tree, n, subgoals, action) IN
    /\ Len(grown.tree) <= MaxExpandNodes
    /\ tree' = grown.tree
    /\ selected' = grown.node
    /\ call' = [NoCall EXCEPT !.op = "expand", !.node = n]
    /\ UNCHANGED <<analysis, runs, cfg, llm, pc, oracle, subgoals, iter, result>>

NextExpand ==
    \E n \in 1..Len(tree) :
        \E a \in (IF ExpandChoices(tree, n, subgoals) # {}
                  THEN ExpandChoices(tree, n, subgoals) ELSE {NoneText}) :
            MctsExpand(n, a)

SpecExpand == InitExpand /\ [][NextExpand]_vars

----------------------------------------------------------------------------
(* Claims *)

\* plan() was entered by the current call, directly or through update_plan
PlanInvoked == call.op = "plan" \/ (call.op = "update_plan" /\ call.reward < 0)

\* the candidate lists plan(call.obs, goal) can obtain under this configuration
CandidateLists(goal) ==
    {planner_generate_subgoals(cfg, llm, call.obs, goal, b) : b \in PlanBackends}

\* C1 (as stated): whenever update_plan was called with reward < 0 and the goal
\* "recover from failure" resolves to a non-empty subgoal list (under every backend
\* outcome), the value it returns is a non-empty list of actions.
C1_ReplanNonEmpty ==
    (/\ pc = "done" /\ call.op = "update_plan" /\ call.reward < 0
     /\ <<>> \notin CandidateLists(<<"r","e","c","o","v","e","r"," ","f","r","o","m"," ","f","a","i","l","u","r","e">>))
        => (result.kind = "list" /\ result.value # <<>>)

\* C1 (amended): update_plan with reward < 0 returns what plan(current_state,
\* "recover from failure") returns: the empty list from a disabled planner or for an
\* empty candidate list, and otherwise the plan extracted from the tree searched over
\* the candidates of that goal, which is a non-empty list.
C1_ReplanReturnsPlan ==
    (pc = "done" /\ call.op = "update_plan" /\ call.reward < 0)
        => /\ result.kind = "list"
           /\ call.goal = <<"r","e","c","o","v","e","r"," ","f","r","o","m"," ","f","a","i","l","u","r","e">>
           /\ IF ~cfg.enabled THEN result.value = <<>> /\ ~oracle.requested
              ELSE /\ oracle.requested
                   /\ subgoals \in CandidateLists(<<"r","e","c","o","v","e","r"," ","f","r","o","m"," ","f","a","i","l","u","r","e">>)
                   /\ IF subgoals = <<>> THEN result.value = <<>>
                      ELSE /\ result.value # <<>>
                           /\ tree # <<>>
                           /\ \A k \in 1..Len(result.value) :
                                  \E s \in 1..Len(subgoals) : result.value[k] = subgoals[s]

C1_Witness ==
    /\ pc = "done" /\ call.op = "update_plan" /\ call.reward < 0
    /\ cfg.enabled /\ Len(tree) > 1 /\ result.kind = "list" /\ Len(result.value) = 2

\* C2: after update_plan with reward >= 0 the call is over, its value is None, and the
\* oracle was not asked, no request went to the backend, no tree was built and no
\* iteration ran.
C2_NoReplanOnNonNegative ==
    (call.op = "update_plan" /\ call.reward >= 0)
        => /\ pc = "done"
           /\ result = NoneResult
           /\ oracle = NoOracle
           /\ subgoals = <<>> /\ tree = <<>> /\ iter = 0

C2_Witness ==
    /\ call.op = "update_plan" /\ call.reward = 0 /\ pc = "done" /\ cfg.enabled
    /\ AsksLlm(cfg, llm) /\ UsesBackend(llm) /\ cfg.mcts_simulations > 0

\* C3: with enabled false, a call that enters plan() is over at once with the empty
\* list, the oracle was not asked, and no tree was built and no iteration ran.
C3_DisabledPlanIsEmpty ==
    (PlanInvoked /\ ~cfg.enabled)
        => /\ pc = "done"
           /\ result = ListResult(<<>>)
           /\ oracle = NoOracle
           /\ subgoals = <<>> /\ tree = <<>> /\ iter = 0

C3_Witness ==
    /\ call.op = "plan" /\ ~cfg.enabled /\ pc = "done"
    /\ AsksLlm(cfg, llm) /\ UsesBackend(llm) /\ cfg.mcts_simulations > 0 /\ cfg.max_subgoals > 0

\* C4: while the search runs the root's visits equal the iterations done, which do not
\* exceed mcts_simulations; when plan() has returned from a search, both equal
\* mcts_simulations.
C4_VisitConservation ==
    /\ pc = "search" => (tree[1].visits = iter /\ iter <= cfg.mcts_simulations)
    /\ (pc = "done" /\ tree # <<>>)
           => (iter = cfg.mcts_simulations /\ tree[1].visits = cfg.mcts_simulations)

C4_Witness ==
    /\ pc = "done" /\ tree # <<>> /\ cfg.mcts_simulations = 2 /\ tree[1].visits = 2
    /\ Len(tree) = 3 /\ tree[1].value = IntToFloat(1) /\ tree[3].value = IntToFloat(2)

\* C5: select on a visited parent with exactly two children, one visited and one
\* unvisited and childless, returns the unvisited one.
C5_UnvisitedChildFirst ==
    \A p \in 1..Len(tree) : \A a, b \in 1..Len(tree) :
        (/\ call.op = "select" /\ call.node = p
         /\ tree[p].visits >= 1
         /\ (tree[p].children = <<a, b>> \/ tree[p].children = <<b, a>>)
         /\ tree[a].visits > 0
         /\ tree[b].visits = 0 /\ tree[b].children = <<>>)
            => selected = b

C5_Witness ==
    /\ call.op = "select" /\ call.node = 1 /\ Len(tree) = 3
    /\ tree[1].children = <<2, 3>>
    /\ tree[2].visits = 3 /\ tree[2].value = IntToFloat(6) /\ tree[3].visits = 0
    /\ cfg.exploration_constant = 2
    /\ selected = 3

\* C6: in the tree of a search, a node has depth 0 exactly when it has no parent, and
\* then no action; any other node is one deeper than its parent.
C6_DepthInvariant ==
    \A n \in 1..Len(tree) :
        /\ tree[n].depth = 0 <=> tree[n].parent = 0
        /\ tree[n].parent = 0 => tree[n].action = NoneText
        /\ tree[n].parent # 0 => tree[n].depth = tree[tree[n].parent].depth + 1

C6_Witness ==
    /\ pc = "done" /\ Len(tree) = 3 /\ tree[3].parent = 2 /\ tree[3].depth = 2

\* child c of n has the highest visits among n's children and is the first such child
FirstMostVisited(t, n, c) ==
    \E k \in 1..Len(t[n].children) :
        /\ t[n].children[k] = c
        /\ \A j \in 1..Len(t[n].children) : t[t[n].children[j]].visits <= t[c].visits
        /\ \A j \in 1..(k - 1) : t[t[n].children[j]].visits < t[c].visits

\* p is the path from the root's first most visited child down to a childless node
MostVisitedPath(t, p) ==
    /\ FirstMostVisited(t, 1, p[1])
    /\ \A i \in 1..(Len(p) - 1) : FirstMostVisited(t, p[i], p[i + 1])
    /\ t[p[Len(p)]].children = <<>>

\* the plan is the actions along the most visited path
IsPathPlan(t, plan) ==
    \E len \in 1..(Len(t) - 1) : \E p \in [1..len -> 2..Len(t)] :
        /\ MostVisitedPath(t, p)
        /\ plan = [i \in 1..len |-> t[p[i]].action]

\* C7 (as stated): the extracted plan is the sequence of actions on the path that goes
\* from the root to a childless node through the first most visited child of each node
\* (the empty sequence when the root is childless).
C7_PlanIsMostVisitedPath ==
    call.op = "extract"
        => IF tree[1].children = <<>> THEN result.value = <<>>
           ELSE IsPathPlan(tree, result.value)

\* C7 (amended): as above when the root has a child; for a childless root the returned
\* plan is the candidate list.
C7_PlanIsMostVisitedPathOrCandidates ==
    call.op = "extract"
        => IF tree[1].children = <<>> THEN result.value = subgoals
           ELSE IsPathPlan(tree, result.value)

C7_Witness ==
    /\ call.op = "extract" /\ Len(tree) = 3 /\ tree[1].children = <<2, 3>>
    /\ tree[2].visits = 1 /\ tree[3].visits = 1
    /\ tree[2].action # tree[3].action
    /\ result.value = <<tree[2].action>>

\* C8: when plan() returns from a search whose root has no children, it returns the
\* candidate list as an ordinary list: what the oracle gave, within max_subgoals, or
\* the built-in list of the goal when cutting the oracle's list failed.
C8_ChildlessRootReturnsCandidates ==
    (pc = "done" /\ tree # <<>> /\ tree[1].children = <<>>)
        => /\ result = ListResult(subgoals)
           /\ subgoals # <<>>
           /\ (oracle.generated /\ ~slice_raises(cfg)) =>
                  subgoals = SliceTo(oracle.ret, cfg.max_subgoals)
           /\ (oracle.generated /\ slice_raises(cfg)) =>
                  subgoals = generate_basic_subgoals(call.goal)

C8_Witness ==
    /\ pc = "done" /\ tree # <<>> /\ tree[1].children = <<>>
    /\ cfg.mcts_simulations = 0 /\ cfg.max_depth > 0
    /\ oracle.generated /\ Len(result.value) = 4

\* the first entry of the fallback table whose key occurs in the goal, both lowered
FirstMatchingKey(goal, k) ==
    /\ Contains(LowerStr(fallback_subgoals[k].key), LowerStr(goal))
    /\ \A j \in 1..(k - 1) : ~Contains(LowerStr(fallback_subgoals[j].key), LowerStr(goal))

\* C9: with the oracle disabled, generate_subgoals returns the list of the first table
\* key that occurs in the goal whatever the case, the generic default when none
\* occurs, and the wood list for "collect wood": a function of the goal alone.
C9_FallbackIsFirstMatch ==
    (call.op = "generate_subgoals" /\ ~UsesBackend(llm))
        => /\ \/ \E k \in 1..Len(fallback_subgoals) :
                     FirstMatchingKey(call.goal, k) /\ result.value = fallback_subgoals[k].subgoals
              \/ /\ \A k \in 1..Len(fallback_subgoals) : ~FirstMatchingKey(call.goal, k)
                 /\ result.value = <<<<"e","x","p","l","o","r","e"," ","e","n","v","i","r","o","n","m","e","n","t">>, <<"g","a","t","h","e","r"," ","r","e","s","o","u","r","c","e","s">>, <<"a","v","o","i","d"," ","d","a","n","g","e","r">>, <<"c","o","m","p","l","e","t","e"," ","o","b","j","e","c","t","i","v","e">>>>
           /\ call.goal = <<"c","o","l","l","e","c","t"," ","w","o","o","d">>
                  => result.value = <<<<"f","i","n","d"," ","t","r","e","e","s">>, <<"c","h","o","p"," ","w","o","o","d">>, <<"g","a","t","h","e","r"," ","r","e","s","o","u","r","c","e","s">>, <<"r","e","t","u","r","n"," ","t","o"," ","b","a","s","e">>>>

C9_Witness ==
    /\ call.op = "generate_subgoals" /\ ~UsesBackend(llm)
    /\ call.goal = <<"C","o","l","l","e","c","t"," ","W","o","o","d"," ","n","o","w">> /\ ~call.obs.isNone
    /\ result.value = <<<<"f","i","n","d"," ","t","r","e","e","s">>, <<"c","h","o","p"," ","w","o","o","d">>, <<"g","a","t","h","e","r"," ","r","e","s","o","u","r","c","e","s">>, <<"r","e","t","u","r","n"," ","t","o"," ","b","a","s","e">>>>

\* C10: when the enabled oracle's request fails (another status, or an exception),
\* generate_subgoals returns the list the rule table gives for the goal.
C10_BackendFailureUsesRuleTable ==
    (call.op = "generate_subgoals" /\ UsesBackend(llm) /\ oracle.backend \in {"http_error", "exception"})
        => result.value = generate_fallback_subgoals(call.goal)

\* the text gives no subgoal: parsing it fails or keeps no line
NoSubgoalLine(text) == parse_subgoals(text).raised \/ parse_subgoals(text).value = <<>>

\* C11: when the backend answers 200 with a text that gives no subgoal (empty, or no
\* line of at least 4 characters), generate_subgoals returns the rule-table list of the
\* goal, which is not empty.
C11_MalformedResponseUsesRuleTable ==
    (/\ call.op = "generate_subgoals" /\ UsesBackend(llm)
     /\ oracle.backend = "ok" /\ NoSubgoalLine(oracle.response))
        => /\ result.value = generate_fallback_subgoals(call.goal)
           /\ result.value # <<>>

\* C12: no call of plan() or update_plan() ends with an exception: once the call is
\* over, plan() has returned a list (a plan or the empty plan) and update_plan() a list
\* or None, whatever the oracle did (a text, the empty text, a text whose parsing
\* raises, a failed request, no oracle).
C12_NoExceptionEscapes ==
    /\ result.kind # "raised"
    /\ (pc = "done" /\ call.op = "plan") => result.kind = "list"
    /\ (pc = "done" /\ call.op = "update_plan")
           => result.kind = (IF call.reward < 0 THEN "list" ELSE "None")

C12_Witness ==
    /\ pc = "done" /\ call.op = "plan" /\ cfg.enabled
    /\ oracle.backend = "ok" /\ oracle.response = <<"-">>
    /\ parse_subgoals(oracle.response).raised
    /\ Len(tree) = 3 /\ iter = 2
    /\ result.kind = "list" /\ Len(result.value) = 2

\* C13: under a configuration with a whole max_subgoals >= 1, the candidate list plan() searches
\* over never has more than max_subgoals entries, whichever path produced it (remote
\* oracle, the oracle's fallback table, the planner's built-in table).
C13_CandidatesWithinMaxSubgoals ==
    (PlanInvoked /\ oracle.requested /\ cfg.max_subgoals_is_int /\ cfg.max_subgoals >= 1)
        => Len(subgoals) <= cfg.max_subgoals

\* PlannerConfig as the specification bounds it
ValidConfig(c) ==
    /\ c.mcts_simulations >= 1 /\ c.max_depth >= 1
    /\ c.max_subgoals_is_int /\ c.max_subgoals >= 1 /\ c.exploration_constant >= 0

\* C15: a Planner exists only with a valid configuration: no call of plan() is ever
\* served by a planner whose mcts_simulations, max_depth or max_subgoals is <= 0 or
\* whose exploration_constant is negative.
C15_InvalidConfigFailsAtConstruction ==
    PlanInvoked => ValidConfig(cfg)

\* C16: an oracle whose construction probe failed answers every generate_subgoals and
\* analyze_task call from the deterministic fallback, without a request to the backend.
C16_FailedProbeDisablesOracle ==
    (llm.probe = "failed" /\ call.op \in {"generate_subgoals", "analyze_task"})
        => /\ oracle.backend = "none"
           /\ call.op = "generate_subgoals" => result.value = generate_fallback_subgoals(call.goal)
           /\ call.op = "analyze_task" => analysis = analyze_task_fallback(call.goal)

Digits == {"0", "1", "2", "3", "4", "5", "6", "7", "8", "9"}

\* the line still begins with an enumeration marker: a digit and '.', or '-', or '*'
KeepsMarker(line) ==
    \/ Len(line) >= 2 /\ line[1] \in Digits /\ line[2] = "."
    \/ Len(line) >= 1 /\ line[1] \in {"-", "*"}

\* C17: a 200 answer is parsed into at most 5 subgoals, each at least 4 characters
\* long and none still carrying its enumeration marker (a digit and '.', '-', '*'); the text
\* "1. Find trees\n2. Chop wood\n\n3. Return" gives ["Find trees", "Chop wood", "Return"].
C17_ParsingStripsMarkers ==
    (call.op = "generate_subgoals" /\ UsesBackend(llm) /\ oracle.backend = "ok")
        => /\ Len(result.value) <= 5
           /\ \A k \in 1..Len(result.value) :
                  Len(result.value[k]) >= 4 /\ ~KeepsMarker(result.value[k])
           /\ oracle.response = <<"1","."," ","F","i","n","d"," ","t","r","e","e","s","\n","2","."," ","C","h","o","p"," ","w","o","o","d","\n","\n","3","."," ","R","e","t","u","r","n">>
                  => result.value = <<<<"F","i","n","d"," ","t","r","e","e","s">>, <<"C","h","o","p"," ","w","o","o","d">>, <<"R","e","t","u","r","n">>>>

\* C18: analyze_task returns a record whose complexity is simple, medium or complex
\* (for a rationale that came from the client: simple below 10 words, medium below 20,
\* complex from 20 on) and whose estimated_steps is in 2..6, for every task and
\* backend outcome.
C18_AnalysisWellFormed ==
    call.op = "analyze_task"
        => /\ analysis.task = call.goal
           /\ analysis.complexity \in {"simple", "medium", "complex"}
           /\ UsesBackend(llm)
                  => analysis.complexity = (IF word_count(analysis.analysis) < 10 THEN "simple"
                                            ELSE IF word_count(analysis.analysis) < 20 THEN "medium"
                                            ELSE "complex")
           /\ analysis.estimated_steps \in 2..6

\* C14: plan() for "defeat zombie" with the oracle disabled, mcts_simulations = 50,
\* max_depth = 3 and exploration_constant = 1 returns a non-empty list of at most
\* max_subgoals elements, each of them "find weapon", "approach enemy" or "attack",
\* whatever the expansion draws and the simulated values were.
C14_DefeatZombiePlan ==
    (/\ pc = "done" /\ call.op = "plan" /\ call.goal = <<"d","e","f","e","a","t"," ","z","o","m","b","i","e">>
     /\ ~(AsksLlm(cfg, llm) /\ UsesBackend(llm))
     /\ cfg.mcts_simulations = 50 /\ cfg.max_depth = 3 /\ cfg.exploration_constant = 1)
        => /\ result.kind = "list" /\ result.value # <<>>
           /\ Len(result.value) <= cfg.max_subgoals
           /\ \A k \in 1..Len(result.value) :
                  result.value[k] \in {<<"f","i","n","d"," ","w","e","a","p","o","n">>, <<"a","p","p","r","o","a","c","h"," ","e","n","e","m","y">>, <<"a","t","t","a","c","k">>}

\* the nodes reachable from node n through children
RECURSIVE Descendants(_, _)
Descendants(t, n) ==
    {n} \cup UNION {Descendants(t, t[n].children[k]) : k \in 1..Len(t[n].children)}

\* the tree a search grows alone from a fresh root when its draws are draws[k], draws[k+1], ...
RECURSIVE replay(_, _, _, _, _)
replay(c, candidates, draws, k, t) ==
    IF k > Len(draws) THEN t
    ELSE replay(c, candidates, draws, k + 1,
                search_iteration(t, select(t, 1, c.exploration_constant), c.max_depth, candidates,
                                 draws[k].action, draws[k].value))

\* the plan of an invocation run alone with these draws
plan_alone(c, observation, candidates, draws) ==
    extract_plan(replay(c, candidates, draws, 1, new_root(<<>>, observation).tree), candidates)

Started(i) == runs[i].root # 0

\* C19 (state part): the trees of the two invocations have no node in common; an
\* invocation that has returned has its root visited mcts_simulations times and has
\* returned the plan it returns alone with the same draws.
PairSeparate ==
    /\ (Started(1) /\ Started(2))
           => Descendants(tree, runs[1].root) \cap Descendants(tree, runs[2].root) = {}
    /\ \A i \in 1..2 :
           (Started(i) /\ runs[i].pc = "done")
               => /\ tree[runs[i].root].visits = runs[i].cfg.mcts_simulations
                  /\ runs[i].result =
                         ListResult(plan_alone(runs[i].cfg, NoObservation, runs[i].subgoals, runs[i].draws))

\* C19 (step part): a step that is not of invocation i leaves every node of i's tree as it was
PairUntouched ==
    \A i \in 1..2 :
        (Started(i) /\ runs'[i] = runs[i])
            => \A n \in Descendants(tree, runs[i].root) : tree'[n] = tree[n]

\* C19: two plan() invocations whose steps interleave work on trees of their own: no
\* node is reachable from both roots, no step of one changes a node of the other, each
\* ends with its root's visits equal to its mcts_simulations and returns the plan it
\* returns when run alone with the same random draws.
C19_InvocationsIsolated == []PairSeparate /\ [][PairUntouched]_vars

C19_Witness ==
    /\ runs[1].pc = "done" /\ runs[2].pc = "done"
    /\ runs[1].root = 2 /\ runs[2].root = 1
    /\ Len(tree) = 6 /\ tree[3].parent = 1 /\ tree[4].parent = 2 /\ tree[5].parent = 3 /\ tree[6].parent = 4
    /\ runs[1].result # runs[2].result
    /\ Len(runs[1].result.value) = 2 /\ Len(runs[2].result.value) = 2

\* C20: MCTS.search with num_simulations >= 1 returns a node that is a child of the
\* root with the most visits among the root's children, the first inserted of those;
\* it returns None exactly when the root has no children at the end.
C20_SearchReturnsMostVisitedChild ==
    (pc = "done" /\ call.op = "search")
        => /\ call.num_simulations >= 1
                  => (result.kind = "node" /\ FirstMostVisited(tree, 1, result.value[1]))
           /\ result.kind = "None" <=> tree[1].children = <<>>
           /\ result.kind \in {"node", "None"}

C20_Witness ==
    /\ pc = "done" /\ call.op = "search" /\ call.num_simulations = 2
    /\ result.kind = "node" /\ result.value = <<2>>
    /\ Len(tree) = 3 /\ tree[2].visits = 2 /\ tree[2].parent = 1 /\ tree[3].parent = 2

\* the proper ancestors of node n
RECURSIVE Ancestors(_, _)
Ancestors(t, n) == IF t[n].parent = 0 THEN {} ELSE {t[n].parent} \cup Ancestors(t, t[n].parent)

\* the members of a list
Members(l) == {l[k] : k \in 1..Len(l)}

\* C21: in the search of plan(), the node selection returned has no ancestor with a
\* candidate action still unrepresented among its children, and once the budget allows
\* (mcts_simulations >= number of candidates, max_depth >= 1) the root ends with one
\* child per candidate action.
C21_SelectStopsAtUnexpanded ==
    /\ (pc \in {"search", "done"} /\ tree # <<>> /\ selected # 0)
           => \A a \in Ancestors(tree, selected) : unexpanded_actions(tree, a, subgoals) = <<>>
    /\ (/\ pc = "done" /\ tree # <<>>
        /\ cfg.mcts_simulations >= Len(subgoals) /\ cfg.max_depth >= 1)
           => expanded_actions(tree, 1) = Members(subgoals)

\* the children of every node carry pairwise distinct actions, all from the candidates
DistinctChildren(t, candidates) ==
    \A n \in 1..Len(t) :
        /\ \A j, k \in 1..Len(t[n].children) :
               t[t[n].children[j]].action = t[t[n].children[k]].action => j = k
        /\ expanded_actions(t, n) \subseteq Members(candidates)

\* one call of expand on call'.node: at most one new node, a child of that node whose
\* action is a candidate no sibling carries; nothing new and the node itself returned
\* when no candidate is left or the list is empty
ExpandStep ==
    call'.op = "expand" =>
        LET n == call'.node IN
        /\ Len(tree') \in {Len(tree), Len(tree) + 1}
        /\ \A m \in 1..Len(tree) : m # n => tree'[m] = tree[m]
        /\ Len(tree') = Len(tree) + 1 =>
               /\ tree'[Len(tree')].parent = n
               /\ tree'[Len(tree')].action \in Members(subgoals) \ expanded_actions(tree, n)
               /\ tree'[n].children = Append(tree[n].children, Len(tree'))
               /\ selected' = Len(tree')
        /\ Members(subgoals) \subseteq expanded_actions(tree, n) =>
               /\ tree' = tree
               /\ selected' = n

\* C22: expansion attaches at most one new child per call, with an action of the
\* candidate set that no sibling carries, so the children of a node always carry
\* pairwise distinct candidate actions; when every candidate is represented or the
\* list is empty it adds nothing and returns the node it was given.
C22_ExpandAddsOneDistinctChild == []DistinctChildren(tree, subgoals) /\ [][ExpandStep]_vars

\* witness C22: a node with two children, and expand just returned it unchanged
C22_Witness ==
    /\ call.op = "expand"
    /\ selected = call.node
    /\ subgoals # <<>>
    /\ Len(tree[call.node].children) = 2
    /\ unexpanded_actions(tree, call.node, subgoals) = <<>>

\* one pass of the simulation loop of plan() was just taken
LoopPass == pc = "search" /\ tree # <<>> /\ iter' = iter + 1 /\ selected' # 0

\* no node of the tree is deeper than max_depth
DepthCapped == tree # <<>> => \A n \in 1..Len(tree) : tree[n].depth <= cfg.max_depth

\* in one pass, no node at depth max_depth or more gains a child, and when the
\* selected node is such a node nothing is added and it is visited all the same
CappedStep ==
    LoopPass =>
        /\ \A m \in 1..Len(tree) :
               tree[m].depth >= cfg.max_depth => tree'[m].children = tree[m].children
        /\ tree[selected'].depth >= cfg.max_depth =>
               /\ Len(tree') = Len(tree)
               /\ tree'[selected'].visits = tree[selected'].visits + 1
               /\ \A a \in Ancestors(tree, selected') : tree'[a].visits = tree[a].visits + 1

\* C23: a node whose depth is max_depth or more never receives a child, so every node
\* has depth at most max_depth; such a node is still selected, simulated and counted
\* in backpropagation.
C23_DepthCapStopsExpansion == []DepthCapped /\ [][CappedStep]_vars

\* witness C23: a leaf at depth max_depth >= 1 that a pass selected and visited again
C23_Witness ==
    /\ pc = "search"
    /\ tree # <<>>
    /\ selected # 0
    /\ cfg.max_depth >= 1
    /\ tree[selected].depth = cfg.max_depth
    /\ tree[selected].children = <<>>
    /\ tree[selected].visits >= 2

\* the path from node n up to the root, n included
PathToRoot(t, n) == {n} \cup Ancestors(t, n)

\* t2 is t after one backpropagation of value v from node n: the nodes off the path are
\* as they were, those on it have one visit more and v added to their value, nothing else
BackpropagatedFrom(t, t2, n, v) ==
    /\ Len(t2) = Len(t)
    /\ LET path == PathToRoot(t, n)
       IN  /\ \A m \in 1..Len(t) :
                  IF m \in path THEN t2[m].visits = t[m].visits + 1 ELSE t2[m] = t[m]
           /\ \A m \in path :
                  t2[m] = [t[m] EXCEPT !.visits = @ + 1, !.value = FloatAdd(@, v)]

\* a step that changes counters of a tree of the same size is one backpropagation from
\* some node with some value; no step ever lowers a visit count
BackpropStep ==
    /\ (Len(tree') = Len(tree) /\ tree' # tree) =>
           \E n \in 1..Len(tree), v \in ValuesTried : BackpropagatedFrom(tree, tree', n, v)
    /\ Len(tree') >= Len(tree) =>
           \A m \in 1..Len(tree) : tree'[m].visits >= tree[m].visits

\* C24: backpropagation adds 1 to visits and the value to value on the node and on each
\* of its ancestors up to the root, and leaves visits, value, children, action and depth
\* of every node off that path unchanged; visits never decrease.
C24_BackpropagateTouchesOnlyThePath == [][BackpropStep]_vars

\* witness C24: a visited child next to a sibling that no backpropagation has touched
C24_Witness ==
    /\ Len(tree) >= 3
    /\ Len(tree[1].children) = 2
    /\ tree[tree[1].children[1]].visits >= 1
    /\ tree[tree[1].children[2]].visits = 0
    /\ tree[tree[1].children[2]].value = Zero
    /\ tree[1].visits = tree[tree[1].children[1]].visits

\* the smaller of two numbers
Min(a, b) == IF a <= b THEN a ELSE b

\* the tree is one path: at most one child per node
SinglePath(t) == \A n \in 1..Len(t) : Len(t[n].children) <= 1

\* the tree of plan() is one path of 1 + min(passes so far, max_depth) nodes
PathShape ==
    (tree # <<>> /\ pc \in {"search", "done"} /\ result # RaisedResult) =>
        /\ SinglePath(tree)
        /\ Len(tree) = 1 + Min(iter, cfg.max_depth)

\* a pass that adds a node adds it below a childless node
ExpandsAtLeaf == (LoopPass /\ Len(tree') > Len(tree)) => tree[selected'].children = <<>>

\* C25: in the tree plan() builds every node has at most one child, every expansion
\* happens at a childless node, and the tree is a single path of
\* 1 + min(passes so far, max_depth) nodes.
C25_PlanTreeIsSinglePath == []PathShape /\ [][ExpandsAtLeaf]_vars

\* witness C25: two passes have grown a path of three nodes
C25_Witness ==
    /\ pc = "search"
    /\ iter = 2
    /\ Len(tree) = 3
    /\ tree[1].children = <<2>>
    /\ tree[2].children = <<3>>
    /\ tree[3].children = <<>>

\* the visits of the children of node n, added up
RECURSIVE SumVisits(_, _)
SumVisits(t, kids) ==
    IF kids = <<>> THEN 0 ELSE t[Head(kids)].visits + SumVisits(t, Tail(kids))

\* C26: at the end of every pass of the loop every node has visits >= 1 and visits at
\* least the sum of its children's visits, so the logarithm and the division of the UCB
\* value are never applied to 0.
C26_VisitsPositiveAfterEachPass ==
    (tree # <<>> /\ pc \in {"search", "done"} /\ iter >= 1) =>
        \A n \in 1..Len(tree) :
            /\ tree[n].visits >= 1
            /\ tree[n].visits >= SumVisits(tree, tree[n].children)
            /\ tree[n].parent # 0 =>
                   get_ucb_value(tree, n, cfg.exploration_constant).kind = "num"

\* witness C26: after two passes, a node visited more often than its only child
C26_Witness ==
    /\ pc = "search"
    /\ iter >= 2
    /\ Len(tree) >= 3
    /\ tree[2].children # <<>>
    /\ tree[2].visits > SumVisits(tree, tree[2].children)
    /\ SumVisits(tree, tree[2].children) >= 1

\* C27: when the root has at least one child, the plan plan() returns has between 1 and
\* min(mcts_simulations, max_depth) entries, whatever the number of candidates and
\* max_subgoals.
C27_PlanLengthWithinBudget ==
    (/\ pc = "done" /\ tree # <<>> /\ result.kind = "list"
     /\ tree[1].children # <<>>) =>
        /\ Len(result.value) >= 1
        /\ Len(result.value) <= Min(cfg.mcts_simulations, cfg.max_depth)

\* witness C27: a returned plan that names the same subgoal twice, shorter than the candidates
C27_Witness ==
    /\ pc = "done"
    /\ tree # <<>>
    /\ result.kind = "list"
    /\ Len(result.value) = 2
    /\ result.value[1] = result.value[2]
    /\ Len(subgoals) > 2
====
